---- MODULE Spec2Model ----
(***************************************************************************)
(* Model of pagespeed_insights_tool.py: the retry policy of                *)
(* fetch_pagespeed_result, the rate-limited dispatcher process_urls, the   *)
(* multi-run reduction aggregate_multi_run and the budget evaluation       *)
(* evaluate_budget with its driver _apply_budget.                          *)
(* Time is in whole seconds (RETRY_BASE_DELAY = 2.0 s is 2).               *)
(***************************************************************************)
EXTENDS Integers, Sequences, FiniteSets, TLC

\* ------------------------------------------------------------------ bounds
MaxUrls == 2
MaxRuns == 2
MaxTasks == 4
MaxPoolTasks == 2
MaxWorkers == 2
MaxDelay == 1
MaxClock == 2
MaxHint == 1
\* rows of a table handed to evaluate_budget
MaxRows == 2
\* distinct (url, strategy) keys, runs per key and rows of a raw table handed
\* to aggregate_multi_run
MaxKeys == 2
MaxAggRuns == 3
MaxRaw == 4

\* ------------------------------------------------------- program constants
MAX_RETRIES == 3
RETRY_BASE_DELAY == 2
RETRYABLE_STATUS_CODES == {429, 500, 503}
\* the Retry-After value of test_429_with_retry_after
TestRetryAfter == 5

BUDGET_EXIT_CODE == 2

\* Python's None, and NaN in a table cell
NoneVal == [kind |-> "None"]

UrlPool == <<"a.com", "b.com", "c.com", "d.com">>
StrategyPool == <<"mobile", "desktop">>

\* 2**n
RECURSIVE Pow2(_)
Pow2(n) == IF n <= 0 THEN 1 ELSE 2 * Pow2(n - 1)

Min(a, b) == IF a <= b THEN a ELSE b

\* ------------------------------------------------- what requests.get yields
\* The Retry-After header: absent (headers.get gives None), present and empty,
\* or a number of seconds.
Hints ==
    {[present |-> FALSE, empty |-> FALSE, secs |-> 0],
     [present |-> TRUE, empty |-> TRUE, secs |-> 0]}
    \cup {[present |-> TRUE, empty |-> FALSE, secs |-> s] :
            s \in (0..MaxHint) \cup {TestRetryAfter}}

NoHint == [present |-> FALSE, empty |-> FALSE, secs |-> 0]

\* Bodies of a 200 response: a full result, a body that encodes an application
\* error, a body without the lighthouseResult object.
OkBodies == {"full", "error_body", "no_lighthouse"}

Statuses == {200, 429, 500, 503, 403, 404}

\* A response object, or the exception requests.get raised instead:
\* a requests.RequestException (connection error, timeout) or a bare OSError.
Responses ==
    {[kind |-> "response", status |-> 200, hint |-> NoHint, body |-> b] : b \in OkBodies}
    \cup {[kind |-> "response", status |-> s, hint |-> h, body |-> "detail"] :
            s \in Statuses \ {200}, h \in Hints}
    \cup {[kind |-> "RequestException", status |-> 0, hint |-> NoHint, body |-> "none"],
          [kind |-> "OSError", status |-> 0, hint |-> NoHint, body |-> "none"]}

\* The outcomes offered to the fetches of process_urls, one of each class: a
\* result, an error body, a status that is not retried, a retryable failure
\* (a transport error, retried after the backoff), a bare OSError.
PoolResponses ==
    {r \in Responses :
        \/ r.kind # "response"
        \/ r.status = 200 /\ r.body \in {"full", "error_body"}
        \/ r.status = 403 /\ r.hint = NoHint}

\* ------------------------------------------------- fetch_pagespeed_result
\* Python truthiness of headers.get("Retry-After"): None and "" are falsy,
\* every non-empty string (also "0") is truthy.
Truthy(h) == h.present /\ ~h.empty

\* float(retry_after)
Float(h) == h.secs

HintHonouredMutant(resp) == Truthy(resp.hint)
\* line 639: retry_after and response.status_code == 429
HintHonoured(resp) == Truthy(resp.hint) /\ resp.status = 429

WaitTimeNoDoubling(resp, attempt) ==
    IF HintHonoured(resp) THEN Float(resp.hint) ELSE RETRY_BASE_DELAY
\* lines 638-642
WaitTime(resp, attempt) ==
    IF HintHonoured(resp) THEN Float(resp.hint) ELSE RETRY_BASE_DELAY * Pow2(attempt)

\* PageSpeedError(f"HTTP {status} for {url} ({strategy}): {detail}"), line 657
HttpError(status, url, strategy, detail) ==
    [kind |-> "PageSpeedError", text |-> "HTTP", status |-> status, url |-> url,
     strategy |-> strategy, attempts |-> 0, cause |-> detail]

\* PageSpeedError(f"Failed after {MAX_RETRIES + 1} attempts for ...: {last_error}"), line 667
FailedAfterError(url, strategy, last_error) ==
    [kind |-> "PageSpeedError", text |-> "Failed after", status |-> 0, url |-> url,
     strategy |-> strategy, attempts |-> MAX_RETRIES + 1, cause |-> last_error]

RetryableMutant(resp) == resp.status \in RETRYABLE_STATUS_CODES \cup {403}
\* line 637
Retryable(resp) == resp.status \in RETRYABLE_STATUS_CODES

MayRetryMutant(attempt) == attempt <= MAX_RETRIES
\* lines 646, 663: attempt < MAX_RETRIES
MayRetry(attempt) == attempt < MAX_RETRIES

CaughtMutant(resp) == resp.kind \in {"RequestException", "OSError"}
\* line 661: except requests.RequestException
Caught(resp) == resp.kind = "RequestException"

\* One iteration of the loop of lines 626-665 on the outcome `resp` of
\* requests.get at attempt `attempt`: what the call does next.
\*   return : the call returns response.json()          (line 635)
\*   sleep  : time.sleep(wait), then the next attempt   (lines 647, 664)
\*   raise  : the call raises PageSpeedError            (lines 657, 667)
\*   escape : an exception that no handler of the call catches leaves it
FetchStep(resp, attempt, url, strategy) ==
    IF resp.kind = "response"
    THEN IF resp.status = 200
         THEN [kind |-> "return", wait |-> 0, value |-> resp.body, error |-> NoneVal,
               last_error |-> NoneVal]
         ELSE IF Retryable(resp) /\ MayRetry(attempt)
         THEN [kind |-> "sleep", wait |-> WaitTime(resp, attempt), value |-> "none",
               error |-> NoneVal,
               last_error |-> [kind |-> "PageSpeedError", text |-> "HTTP",
                               status |-> resp.status, url |-> url,
                               strategy |-> strategy, attempts |-> 0, cause |-> "none"]]
         ELSE [kind |-> "raise", wait |-> 0, value |-> "none",
               error |-> HttpError(resp.status, url, strategy, resp.body),
               last_error |-> NoneVal]
    ELSE IF Caught(resp)
    THEN IF MayRetry(attempt)
         THEN [kind |-> "sleep", wait |-> RETRY_BASE_DELAY * Pow2(attempt), value |-> "none",
               error |-> NoneVal, last_error |-> [kind |-> resp.kind]]
         ELSE [kind |-> "raise", wait |-> 0, value |-> "none",
               error |-> FailedAfterError(url, strategy, resp.kind),
               last_error |-> [kind |-> resp.kind]]
    ELSE [kind |-> "escape", wait |-> 0, value |-> "none", error |-> [kind |-> resp.kind],
          last_error |-> NoneVal]

\* str(exc) of a PageSpeedError: the message, never empty
ErrorRowNoError(url, strategy, exc) ==
    [url |-> url, strategy |-> strategy, error |-> NoneVal]
\* lines 772-777: the row of a task whose fetch raised PageSpeedError
ErrorRow(url, strategy, exc) ==
    [url |-> url, strategy |-> strategy, error |-> exc]

\* ------------------------------------------------------------ process_urls
BaseTasksStrategyMajor(urls, strategies) ==
    [k \in 1..(Len(urls) * Len(strategies)) |->
        <<urls[((k - 1) % Len(urls)) + 1], strategies[((k - 1) \div Len(urls)) + 1]>>]
\* line 747: [(url, strategy) for url in urls for strategy in strategies]
BaseTasks(urls, strategies) ==
    [k \in 1..(Len(urls) * Len(strategies)) |->
        <<urls[((k - 1) \div Len(strategies)) + 1], strategies[((k - 1) % Len(strategies)) + 1]>>]

\* line 748: base_tasks * runs (the empty list when runs <= 0)
TaskList(urls, strategies, runs) ==
    LET base == BaseTasks(urls, strategies)
        n == IF runs <= 0 THEN 0 ELSE Len(base) * runs
    IN [i \in 1..n |-> base[((i - 1) % Len(base)) + 1]]

EffectiveWorkersNoMin(workers, total_tasks) == workers
\* line 800: min(workers, total_tasks)
EffectiveWorkers(workers, total_tasks) == Min(workers, total_tasks)

PaceWakeNoSleep(now, last, delay) == now
\* lines 760-763: the instant before which time.sleep(delay - elapsed) does not
\* return; `now` itself when no sleep is needed
PaceWake(now, last, delay) ==
    LET elapsed == now - last IN
    IF elapsed < delay THEN now + (delay - elapsed) ELSE now

\* ------------------------------------------------------------------ tables
\* A pandas DataFrame is its set of columns and its rows in order, each row a
\* function from the columns to cells. The url and strategy cells are strings;
\* every other cell is NoneVal (None or NaN), a number Num(n), a string Str(s)
\* or, for score_stddev, a float with one decimal Tenths(n) (n tenths).
Num(n) == [kind |-> "int", v |-> n]
Str(s) == [kind |-> "str", v |-> s]
Tenths(n) == [kind |-> "float", tenths |-> n]

\* pd.DataFrame(list of dicts): the columns are the union of the keys, a key a
\* row lacks is NaN in it
DataFrame(rows) ==
    LET columns == UNION {DOMAIN rows[k] : k \in 1..Len(rows)} IN
    [columns |-> columns,
     rows |-> [k \in 1..Len(rows) |->
                 [c \in columns |-> IF c \in DOMAIN rows[k] THEN rows[k][c] ELSE NoneVal]]]

\* row.get(column)
Get(row, column) == IF column \in DOMAIN row THEN row[column] ELSE NoneVal

ErrorUnsetNaOnly(e) == e = NoneVal
\* lines 839, 974: error.isna() | (error == "")
ErrorUnset(e) == e = NoneVal \/ e = Str("")

\* ------------------------------------------------------ aggregate_multi_run
\* lines 124-131
MEDIAN_ELIGIBLE_COLUMNS ==
    {"performance_score", "accessibility_score", "best_practices_score", "seo_score",
     "lab_fcp_ms", "lab_lcp_ms", "lab_cls", "lab_speed_index_ms", "lab_tbt_ms", "lab_tti_ms",
     "field_fcp_ms", "field_lcp_ms", "field_cls", "field_inp_ms", "field_fid_ms",
     "field_ttfb_ms"}

\* line 869: the columns whose name ends with "_category" (lines 78-85)
CategoryColumns ==
    {"field_fcp_category", "field_lcp_category", "field_cls_category",
     "field_inp_category", "field_fid_category", "field_ttfb_category"}

\* the bucket names in sorted order, the order Series.mode() returns its values in
SortedCategories == <<"AVERAGE", "FAST", "SLOW">>

\* the column `col` of `rows` without its NaN cells: series.dropna()
DropNa(rows, col) ==
    SelectSeq([k \in 1..Len(rows) |-> Get(rows[k], col)], LAMBDA cell : cell # NoneVal)

\* the numbers of a series of Num cells
Values(cells) == [k \in 1..Len(cells) |-> cells[k].v]

TwiceMedianLower(values) ==
    LET sorted == SortSeq(values, LAMBDA a, b : a < b) IN
    2 * sorted[(Len(sorted) + 1) \div 2]
\* twice Series.median(): the middle value of the sorted values, or the mean of
\* the two middle ones (doubled, so that a half stays an integer)
TwiceMedian(values) ==
    LET sorted == SortSeq(values, LAMBDA a, b : a < b)
        n == Len(sorted)
    IN IF n % 2 = 1 THEN 2 * sorted[(n + 1) \div 2]
       ELSE sorted[n \div 2] + sorted[(n \div 2) + 1]

RoundHalfUp(twice) == (twice + 1) \div 2
\* Python's round(twice / 2): to the nearest integer, an exact half to the even one
Round(twice) ==
    IF twice % 2 = 0 THEN twice \div 2
    ELSE LET below == (twice - 1) \div 2 IN
         IF below % 2 = 0 THEN below ELSE below + 1

\* --------------------------------------------------------- extract_metrics
\* The numbers of a response are floats: a score in thousandths, a timing in
\* tenths of a millisecond, a layout shift in units of 1/100000; a layout shift
\* rounded to 4 decimals is in units of 1/10000.
Thousandths(n) == [kind |-> "float", thousandths |-> n]
E5(n) == [kind |-> "float", e5 |-> n]
E4(n) == [kind |-> "float", e4 |-> n]

\* dict.get(key, default)
GetOr(dict, key, default) == IF key \in DOMAIN dict THEN dict[key] ELSE default

\* round(n / unit) for n >= 0: to the nearest integer, an exact half as Round
RoundAt(n, unit) ==
    LET q == n \div unit
        r == n % unit
    IN IF 2 * r = unit THEN Round(2 * q + 1) ELSE IF 2 * r < unit THEN q ELSE q + 1

\* lines 67-74
LAB_METRICS ==
    << [audit_id |-> "first-contentful-paint", column_name |-> "lab_fcp_ms"],
       [audit_id |-> "largest-contentful-paint", column_name |-> "lab_lcp_ms"],
       [audit_id |-> "cumulative-layout-shift", column_name |-> "lab_cls"],
       [audit_id |-> "speed-index", column_name |-> "lab_speed_index_ms"],
       [audit_id |-> "total-blocking-time", column_name |-> "lab_tbt_ms"],
       [audit_id |-> "interactive", column_name |-> "lab_tti_ms"] >>

\* lines 78-85
FIELD_METRICS ==
    << [api_key |-> "FIRST_CONTENTFUL_PAINT_MS", value_col |-> "field_fcp_ms",
        category_col |-> "field_fcp_category"],
       [api_key |-> "LARGEST_CONTENTFUL_PAINT_MS", value_col |-> "field_lcp_ms",
        category_col |-> "field_lcp_category"],
       [api_key |-> "CUMULATIVE_LAYOUT_SHIFT_SCORE", value_col |-> "field_cls",
        category_col |-> "field_cls_category"],
       [api_key |-> "INTERACTION_TO_NEXT_PAINT", value_col |-> "field_inp_ms",
        category_col |-> "field_inp_category"],
       [api_key |-> "FIRST_INPUT_DELAY_MS", value_col |-> "field_fid_ms",
        category_col |-> "field_fid_category"],
       [api_key |-> "EXPERIMENTAL_TIME_TO_FIRST_BYTE", value_col |-> "field_ttfb_ms",
        category_col |-> "field_ttfb_category"] >>

\* the characters of an api key of FIELD_METRICS
Spelling(api_key) ==
    CASE api_key = "FIRST_CONTENTFUL_PAINT_MS" ->
           <<"F", "I", "R", "S", "T", "_", "C", "O", "N", "T", "E", "N", "T", "F", "U",
           "L", "_", "P", "A", "I", "N", "T", "_", "M", "S">>
      [] api_key = "LARGEST_CONTENTFUL_PAINT_MS" ->
           <<"L", "A", "R", "G", "E", "S", "T", "_", "C", "O", "N", "T", "E", "N", "T",
           "F", "U", "L", "_", "P", "A", "I", "N", "T", "_", "M", "S">>
      [] api_key = "CUMULATIVE_LAYOUT_SHIFT_SCORE" ->
           <<"C", "U", "M", "U", "L", "A", "T", "I", "V", "E", "_", "L", "A", "Y", "O",
           "U", "T", "_", "S", "H", "I", "F", "T", "_", "S", "C", "O", "R", "E">>
      [] api_key = "INTERACTION_TO_NEXT_PAINT" ->
           <<"I", "N", "T", "E", "R", "A", "C", "T", "I", "O", "N", "_", "T", "O", "_",
           "N", "E", "X", "T", "_", "P", "A", "I", "N", "T">>
      [] api_key = "FIRST_INPUT_DELAY_MS" ->
           <<"F", "I", "R", "S", "T", "_", "I", "N", "P", "U", "T", "_", "D", "E", "L",
           "A", "Y", "_", "M", "S">>
      [] api_key = "EXPERIMENTAL_TIME_TO_FIRST_BYTE" ->
           <<"E", "X", "P", "E", "R", "I", "M", "E", "N", "T", "A", "L", "_", "T", "I",
           "M", "E", "_", "T", "O", "_", "F", "I", "R", "S", "T", "_", "B", "Y", "T", "E">>

ContainsLetters(letters, word) ==
    \A j \in 1..Len(word) : \E i \in 1..Len(letters) : letters[i] = word[j]
\* `word in letters` of two strings: word is a contiguous part of letters
Contains(letters, word) ==
    \E i \in 0..(Len(letters) - Len(word)) : \A j \in 1..Len(word) : letters[i + j] = word[j]

ScoreCellZero(score) ==
    IF score = NoneVal THEN Num(0) ELSE Num(RoundAt(score.thousandths, 10))
\* lines 689, 696: round(score * 100) if score is not None else None
ScoreCell(score) ==
    IF score = NoneVal THEN NoneVal ELSE Num(RoundAt(score.thousandths, 10))

\* line 695: cat_key.replace("-", "_") + "_score"
ScoreColumn(cat_key) ==
    CASE cat_key = "accessibility" -> "accessibility_score"
      [] cat_key = "best-practices" -> "best_practices_score"
      [] cat_key = "seo" -> "seo_score"

\* lines 702-706: round(value), or round(value, 4) for lab_cls
LabCell(column_name, value) ==
    IF value # NoneVal /\ column_name # "lab_cls" THEN Num(RoundAt(value.tenths, 10))
    ELSE IF value # NoneVal THEN E4(RoundAt(value.e5, 10))
    ELSE value

\* lines 715-719: round(percentile / 100, 4) when "CLS" is in the api key
FieldCell(api_key, percentile) ==
    IF percentile # NoneVal /\ Contains(api_key, <<"C", "L", "S">>)
    THEN E4(percentile.v * 100)
    ELSE percentile

\* lines 675-726: the row of a response
extract_metrics(api_response, url, strategy) ==
    LET lighthouse == GetOr(api_response, "lighthouseResult", <<>>)
        categories == GetOr(lighthouse, "categories", <<>>)
        perf == GetOr(categories, "performance", <<>>)
        audits == GetOr(lighthouse, "audits", <<>>)
        loading_exp == GetOr(api_response, "loadingExperience", <<>>)
        field_metrics_data == GetOr(loading_exp, "metrics", <<>>)
        Lab(c) == CHOOSE k \in 1..Len(LAB_METRICS) : LAB_METRICS[k].column_name = c
        FieldValue(c) == CHOOSE k \in 1..Len(FIELD_METRICS) : FIELD_METRICS[k].value_col = c
        FieldCategory(c) ==
            CHOOSE k \in 1..Len(FIELD_METRICS) : FIELD_METRICS[k].category_col = c
    IN [c \in {"url", "strategy", "error"} |->
            IF c = "url" THEN url ELSE IF c = "strategy" THEN strategy ELSE NoneVal]
       @@ [c \in {"performance_score"} |-> ScoreCell(GetOr(perf, "score", NoneVal))]
       @@ [c \in {ScoreColumn(cat_key) : cat_key \in {"accessibility", "best-practices", "seo"}} |->
            LET cat_key == CHOOSE k \in {"accessibility", "best-practices", "seo"} :
                               ScoreColumn(k) = c
            IN ScoreCell(GetOr(GetOr(categories, cat_key, <<>>), "score", NoneVal))]
       @@ [c \in {LAB_METRICS[k].column_name : k \in 1..Len(LAB_METRICS)} |->
            LabCell(c, GetOr(GetOr(audits, LAB_METRICS[Lab(c)].audit_id, <<>>),
                             "numericValue", NoneVal))]
       @@ [c \in {FIELD_METRICS[k].value_col : k \in 1..Len(FIELD_METRICS)} |->
            FieldCell(Spelling(FIELD_METRICS[FieldValue(c)].api_key),
                      GetOr(GetOr(field_metrics_data, FIELD_METRICS[FieldValue(c)].api_key, <<>>),
                            "percentile", NoneVal))]
       @@ [c \in {FIELD_METRICS[k].category_col : k \in 1..Len(FIELD_METRICS)} |->
            GetOr(GetOr(field_metrics_data, FIELD_METRICS[FieldCategory(c)].api_key, <<>>),
                  "category", NoneVal)]
       @@ [c \in {"fetch_time"} |-> GetOr(lighthouse, "fetchTime", NoneVal)]

\* The parts of a response that may be absent: the result object, its
\* categories, the score of the performance category, the audits, the numeric
\* value of the first-contentful-paint audit, the field-data block, the
\* percentile and the bucket of the layout-shift field metric, the fetch time.
ResponseParts ==
    {"lighthouseResult", "categories", "score", "audits", "numericValue",
     "loadingExperience", "percentile", "category", "fetchTime"}

\* dict without its key `key` when `part` is absent
Without(dict, key, absent, part) ==
    IF part \in absent THEN [k \in DOMAIN dict \ {key} |-> dict[k]] ELSE dict

\* A response of the API without the parts `absent`, with the given
\* first-contentful-paint timing (tenths), performance score (thousandths) and
\* layout-shift percentile; everything else as in FULL_API_RESPONSE.
Response(absent, timing, score, percentile) ==
    LET performance == Without([score |-> Thousandths(score)], "score", absent, "score")
        categories ==
            ("performance" :> performance)
            @@ ("accessibility" :> [score |-> Thousandths(850)])
            @@ ("best-practices" :> [score |-> Thousandths(780)])
            @@ ("seo" :> [score |-> Thousandths(950)])
        fcp == Without([numericValue |-> Tenths(timing)], "numericValue", absent, "numericValue")
        audits ==
            ("first-contentful-paint" :> fcp)
            @@ ("largest-contentful-paint" :> [numericValue |-> Tenths(23456)])
            @@ ("cumulative-layout-shift" :> [numericValue |-> E5(5123)])
            @@ ("speed-index" :> [numericValue |-> Tenths(34567)])
            @@ ("total-blocking-time" :> [numericValue |-> Tenths(1234)])
            @@ ("interactive" :> [numericValue |-> Tenths(45678)])
        cls == Without(Without([percentile |-> Num(percentile), category |-> Str("FAST")],
                               "percentile", absent, "percentile"),
                       "category", absent, "category")
        metrics ==
            ("FIRST_CONTENTFUL_PAINT_MS" :> [percentile |-> Num(1800), category |-> Str("FAST")])
            @@ ("LARGEST_CONTENTFUL_PAINT_MS" :>
                   [percentile |-> Num(2500), category |-> Str("AVERAGE")])
            @@ ("CUMULATIVE_LAYOUT_SHIFT_SCORE" :> cls)
            @@ ("INTERACTION_TO_NEXT_PAINT" :> [percentile |-> Num(200), category |-> Str("FAST")])
            @@ ("FIRST_INPUT_DELAY_MS" :> [percentile |-> Num(50), category |-> Str("FAST")])
            @@ ("EXPERIMENTAL_TIME_TO_FIRST_BYTE" :>
                   [percentile |-> Num(800), category |-> Str("AVERAGE")])
        lighthouse ==
            Without(Without(Without([fetchTime |-> Str("t"), categories |-> categories,
                                     audits |-> audits],
                                    "fetchTime", absent, "fetchTime"),
                            "categories", absent, "categories"),
                    "audits", absent, "audits")
    IN Without(Without([lighthouseResult |-> lighthouse,
                        loadingExperience |-> [metrics |-> metrics]],
                       "lighthouseResult", absent, "lighthouseResult"),
               "loadingExperience", absent, "loadingExperience")

\* FULL_API_RESPONSE
FullResponse == Response({}, 12345, 920, 10)

\* the parsed body of a 200 answer: the full response, a body with an error
\* object and no result, a body without the result object
Body(b) ==
    IF b = "full" THEN FullResponse
    ELSE IF b = "error_body" THEN [error |-> [message |-> Str("invalid")]]
    ELSE Response({"lighthouseResult", "loadingExperience"}, 12345, 920, 10)

SeqMax(values) == CHOOSE m \in {values[k] : k \in 1..Len(values)} :
                      \A k \in 1..Len(values) : values[k] <= m
SeqMin(values) == CHOOSE m \in {values[k] : k \in 1..Len(values)} :
                      \A k \in 1..Len(values) : values[k] >= m

RECURSIVE SeqSum(_)
SeqSum(values) == IF values = <<>> THEN 0 ELSE Head(values) + SeqSum(Tail(values))

\* round(Series.std(), 1) in tenths, for at least 2 values: the sample standard
\* deviation is sqrt(p / q) with p = n*sum(x^2) - sum(x)^2 and q = n*(n - 1);
\* the nearest tenth t satisfies (2t - 1)^2 * q <= 400 * p < (2t + 1)^2 * q
StdTenths(values) ==
    LET n == Len(values)
        p == n * SeqSum([k \in 1..n |-> values[k] * values[k]])
               - SeqSum(values) * SeqSum(values)
        q == n * (n - 1)
        span == 10 * (SeqMax(values) - SeqMin(values))
    IN CHOOSE t \in 0..span :
          /\ t = 0 \/ (2 * t - 1) * (2 * t - 1) * q <= 400 * p
          /\ 400 * p < (2 * t + 1) * (2 * t + 1) * q

\* lines 871-875: Series.mode().iloc[0] of the non-NaN values, None when there
\* are none; mode() lists the most frequent values in sorted order
ModeCellFirstEncountered(cells) ==
    IF cells = <<>> THEN NoneVal
    ELSE LET Times(c) == Cardinality({k \in 1..Len(cells) : cells[k] = c})
             top == SelectSeq(cells, LAMBDA c :
                        \A k \in 1..Len(cells) : Times(cells[k]) <= Times(c))
         IN Head(top)

ModeCell(cells) ==
    IF cells = <<>> THEN NoneVal
    ELSE LET Count(c) == Cardinality({k \in 1..Len(cells) : cells[k] = Str(c)})
             top == SelectSeq(SortedCategories, LAMBDA c :
                        \A d \in {SortedCategories[k] : k \in 1..Len(SortedCategories)} :
                            Count(d) <= Count(c))
         IN Str(Head(top))

\* a layout-shift cell in units of 1/10000
InE4(cell) == IF cell.kind = "int" THEN 10000 * cell.v ELSE cell.e4

\* lines 857-865: the rounded median of the non-NaN values, None when there are
\* none; the two layout-shift columns are rounded to 4 decimals
MedianCell(rows, col) ==
    LET cells == DropNa(rows, col) IN
    IF cells = <<>> THEN NoneVal
    ELSE IF col \in {"lab_cls", "field_cls"}
    THEN E4(Round(TwiceMedian([k \in 1..Len(cells) |-> InE4(cells[k])])))
    ELSE Num(Round(TwiceMedian(Values(cells))))

SuccessfulRunsAll(group, dataframe) == group
\* line 839: the rows of the group that count as successful runs
SuccessfulRuns(group, dataframe) ==
    IF "error" \in dataframe.columns
    THEN SelectSeq(group, LAMBDA row : ErrorUnset(row["error"]))
    ELSE group

AllErroredRowNoError(group) ==
    [c \in {"runs_completed", "score_range", "score_stddev"} |->
        IF c = "runs_completed" THEN Num(0) ELSE NoneVal]
    @@ [group[1] EXCEPT !["error"] = NoneVal]
\* lines 844-847: the row of a group without a successful run
AllErroredRow(group) ==
    [c \in {"runs_completed", "score_range", "score_stddev"} |->
        IF c = "runs_completed" THEN Num(0) ELSE NoneVal] @@ group[1]

\* lines 883-892
ScoreMeta(successful_runs) ==
    LET perf_scores == Values(DropNa(successful_runs, "performance_score")) IN
    IF Len(perf_scores) > 1
    THEN [score_range |-> Num(SeqMax(perf_scores) - SeqMin(perf_scores)),
          score_stddev |-> Tenths(StdTenths(perf_scores))]
    ELSE IF Len(perf_scores) = 1
    THEN [score_range |-> Num(0), score_stddev |-> Tenths(0)]
    ELSE [score_range |-> NoneVal, score_stddev |-> NoneVal]

\* lines 851-892: the row of a group with at least one successful run
ReducedRow(group, successful_runs, dataframe) ==
    LET meta == ScoreMeta(successful_runs) IN
    [c \in {"url", "strategy", "error"} |->
        IF c = "error" THEN NoneVal ELSE group[1][c]]
    @@ [c \in MEDIAN_ELIGIBLE_COLUMNS \cap dataframe.columns |->
        MedianCell(successful_runs, c)]
    @@ [c \in CategoryColumns \cap dataframe.columns |->
        ModeCell(DropNa(successful_runs, c))]
    @@ [c \in {"fetch_time"} \cap dataframe.columns |->
        successful_runs[Len(successful_runs)][c]]
    @@ [c \in {"runs_completed", "score_range", "score_stddev"} |->
        IF c = "runs_completed" THEN Num(Len(successful_runs)) ELSE meta[c]]

\* line 841
RunsCompleted(group, successful_runs) == Len(successful_runs)

\* lines 838-849, 894: the aggregated row of one group
AggregatedRow(group, dataframe) ==
    LET successful_runs == SuccessfulRuns(group, dataframe) IN
    IF RunsCompleted(group, successful_runs) = 0
    THEN AllErroredRow(group)
    ELSE ReducedRow(group, successful_runs, dataframe)

\* line 838: groupby(["url", "strategy"], sort=False): the groups in the order
\* in which their keys first appear, each with its rows in table order
Groups(rows) ==
    LET SameKey(a, b) == a["url"] = b["url"] /\ a["strategy"] = b["strategy"]
        first == SelectSeq([k \in 1..Len(rows) |-> k],
                           LAMBDA k : \A j \in 1..(k - 1) : ~SameKey(rows[j], rows[k]))
    IN [g \in 1..Len(first) |->
           SelectSeq(rows, LAMBDA row : SameKey(row, rows[first[g]]))]

PassThroughNever(total_runs) == FALSE
\* line 832
PassThrough(total_runs) == total_runs <= 1

\* lines 822-896
aggregate_multi_run(dataframe, total_runs) ==
    IF PassThrough(total_runs) THEN dataframe
    ELSE LET groups == Groups(dataframe.rows) IN
         DataFrame([g \in 1..Len(groups) |-> AggregatedRow(groups[g], dataframe)])

\* ---------------------------------------------------------- evaluate_budget
\* lines 105-114, in the order of the dict
BUDGET_METRIC_MAP ==
    << [key |-> "min_performance_score", column |-> "performance_score", operator |-> ">="],
       [key |-> "min_accessibility_score", column |-> "accessibility_score", operator |-> ">="],
       [key |-> "min_best_practices_score", column |-> "best_practices_score", operator |-> ">="],
       [key |-> "min_seo_score", column |-> "seo_score", operator |-> ">="],
       [key |-> "max_lcp_ms", column |-> "lab_lcp_ms", operator |-> "<="],
       [key |-> "max_cls", column |-> "lab_cls", operator |-> "<="],
       [key |-> "max_tbt_ms", column |-> "lab_tbt_ms", operator |-> "<="],
       [key |-> "max_fcp_ms", column |-> "lab_fcp_ms", operator |-> "<="] >>

\* lines 973-978: the rows that are evaluated
ValidRows(dataframe) ==
    IF "error" \in dataframe.columns
    THEN SelectSeq(dataframe.rows, LAMBDA row : ErrorUnset(row["error"]))
    ELSE dataframe.rows

\* lines 1004-1010: the rule is compared on this row (not skipped)
RuleChecked(rule, row, dataframe, thresholds) ==
    /\ rule.key \in DOMAIN thresholds
    /\ rule.column \in dataframe.columns
    /\ Get(row, rule.column) # NoneVal

ViolatesNonStrict(operator, actual, threshold) ==
    \/ operator = ">=" /\ actual <= threshold
    \/ operator = "<=" /\ actual >= threshold
\* lines 1013, 1020
Violates(operator, actual, threshold) ==
    \/ operator = ">=" /\ actual < threshold
    \/ operator = "<=" /\ actual > threshold

\* lines 1001-1026: the violations of one row, in the order of the catalog
Violations(row, dataframe, thresholds) ==
    LET hit == SelectSeq(BUDGET_METRIC_MAP, LAMBDA rule :
                   /\ RuleChecked(rule, row, dataframe, thresholds)
                   /\ Violates(rule.operator, Get(row, rule.column).v, thresholds[rule.key]))
    IN [k \in 1..Len(hit) |->
           [metric |-> hit[k].column, actual |-> Get(row, hit[k].column),
            threshold |-> thresholds[hit[k].key], operator |-> hit[k].operator]]

RowVerdictAlwaysFail(violations) == "fail"
\* line 1028
RowVerdict(violations) == IF violations # <<>> THEN "fail" ELSE "pass"

OverallVerdictAlwaysPass(failed_count) == "pass"
\* line 1041
OverallVerdict(failed_count) == IF failed_count > 0 THEN "fail" ELSE "pass"

\* lines 964-1052 (budget_name, a label, is left out)
evaluate_budget(dataframe, budget) ==
    LET thresholds == budget.thresholds
        valid_rows == ValidRows(dataframe)
        error_count == Len(dataframe.rows) - Len(valid_rows)
        results == [k \in 1..Len(valid_rows) |->
                      LET violations == Violations(valid_rows[k], dataframe, thresholds) IN
                      [url |-> valid_rows[k]["url"], strategy |-> valid_rows[k]["strategy"],
                       verdict |-> RowVerdict(violations), violations |-> violations]]
        passed_count == Cardinality({k \in 1..Len(results) : results[k].verdict = "pass"})
        failed_count == Cardinality({k \in 1..Len(results) : results[k].verdict # "pass"})
    IN IF Len(valid_rows) = 0
       THEN [verdict |-> "error", passed |-> 0, failed |-> 0, total |-> 0,
             errors_skipped |-> error_count, results |-> <<>>]
       ELSE [verdict |-> OverallVerdict(failed_count), passed |-> passed_count,
             failed |-> failed_count, total |-> passed_count + failed_count,
             errors_skipped |-> error_count, results |-> results]

\* ------------------------------------------------------------ _apply_budget
\* lines 1130-1140: the formatter that prints the verdict
Formatter(args) ==
    IF ~args.explicit /\ args.github_actions THEN "github" ELSE args.budget_format

\* lines 1144-1147: whether send_budget_webhook is called
WebhookTriggered(args, verdict) ==
    /\ args.webhook # NoneVal
    /\ \/ args.webhook_on = "always"
       \/ args.webhook_on = "fail" /\ verdict.verdict = "fail"

\* lines 1114-1115: what requests.post and raise_for_status may do
PostOutcomes == {"delivered", "ConnectionError", "Timeout", "HTTPError"}

WebhookCaughtTransportOnly(outcome) == outcome \in {"ConnectionError", "Timeout"}
\* line 1116: except (requests.RequestException, OSError); ConnectionError,
\* Timeout and the HTTPError of raise_for_status are RequestExceptions
WebhookCaught(outcome) == outcome \in {"ConnectionError", "Timeout", "HTTPError"}

ExitCodeFailAsError(verdict) == IF verdict.verdict = "pass" THEN 0 ELSE 1
\* lines 1125-1127, 1150-1152
ExitCode(verdict) ==
    IF verdict.verdict = "error" THEN 1
    ELSE IF verdict.verdict = "fail" THEN BUDGET_EXIT_CODE ELSE 0

ReleaseKept(i) == i
\* lines 759-764: leaving the `with rate_limiter_semaphore` block frees the
\* semaphore that task i held (0: free)
Release(i) == 0

\* ------------------------------------------------------------------- state
VARIABLES
    f_pc,          \* one call of fetch_pagespeed_result: "idle", "request", "sleeping",
                   \* "returned", "raised", "escaped"
    f_attempt,     \* the loop variable `attempt`
    f_responses,   \* the outcomes of requests.get so far, in order
    f_sleeps,      \* the arguments of time.sleep so far, in order
    f_last_error,  \* the local last_error
    f_result,      \* the returned value or the raised exception
    cfg,           \* the arguments of process_urls: urls, strategies, runs, workers, delay
    clock,         \* time.monotonic()
    main_pc,       \* process_urls: "start", "running", "unwinding", "returned", "raised"
    max_workers,   \* the size of the ThreadPoolExecutor; 0 when none is created
    semaphore,     \* the rate-limiter semaphore: 0 free, else the task holding it
    lock,          \* the counter lock: 0 free, else the task holding it
    last_request_time,
    completed_count,
    progress,      \* the completed counts printed to the progress display
    seen,          \* per task: the completed_count it read under the lock (else 0)
    pc,            \* per task: "queued", "gate", "pacing", "request", "backoff", "lock",
                   \* "counting", "done", "collected", "escaped"
    attempt,       \* per task: the attempt of its fetch (0 outside a fetch)
    wake,          \* per task: the instant its current sleep ends (0 outside a sleep)
    last_resp,     \* per task: the outcome of requests.get that ended its fetch
    metrics,       \* per task: the row process_single returns
    results,       \* the list `results`
    t_pc,          \* the reporting step: "idle", "responses", "raw", "table",
                   \* "evaluated", "applied", "raised"
    api_responses, \* the responses handed to extract_metrics, one per run
    raw,           \* the table handed to aggregate_multi_run
    total_runs,    \* its argument total_runs
    dataframe,     \* the table handed to evaluate_budget and _apply_budget
    budget,        \* the budget that load_budget returned
    args,          \* the arguments of _apply_budget
    verdict,       \* the dict that evaluate_budget returned
    printed,       \* what _apply_budget printed: "error" or the formatter's name
    delivery,      \* send_budget_webhook: "none" (not called), "delivered" or the
                   \* exception of the request
    exit_code      \* the value _apply_budget returned

fvars == <<f_pc, f_attempt, f_responses, f_sleeps, f_last_error, f_result>>

pvars == <<cfg, clock, main_pc, max_workers, semaphore, lock, last_request_time,
           completed_count, progress, seen, pc, attempt, wake, last_resp, metrics, results>>

tvars == <<t_pc, api_responses, raw, total_runs, dataframe, budget, args, verdict, printed, delivery,
           exit_code>>

vars == <<fvars, pvars, tvars>>

\* nothing is being reported
IdleTables ==
    /\ t_pc = "idle"
    /\ api_responses = <<>>
    /\ raw = NoneVal
    /\ total_runs = 0
    /\ dataframe = NoneVal
    /\ budget = NoneVal
    /\ args = NoneVal
    /\ verdict = NoneVal
    /\ printed = "none"
    /\ delivery = "none"
    /\ exit_code = NoneVal

\* fetch_pagespeed_result is not running on its own
IdleFetcher ==
    /\ f_pc = "idle"
    /\ f_attempt = 0
    /\ f_responses = <<>>
    /\ f_sleeps = <<>>
    /\ f_last_error = NoneVal
    /\ f_result = NoneVal

\* ------------------------------------------------ one call of the fetcher
FetchUrl == "a.com"
FetchStrategy == "mobile"

\* process_urls is not running
IdleDispatcher ==
    /\ cfg = [urls |-> <<>>, strategies |-> <<>>, runs |-> 0, workers |-> 0, delay |-> 0]
    /\ clock = 0
    /\ main_pc = "idle"
    /\ max_workers = 0
    /\ semaphore = 0
    /\ lock = 0
    /\ last_request_time = 0
    /\ completed_count = 0
    /\ progress = <<>>
    /\ seen = <<>>
    /\ pc = <<>>
    /\ attempt = <<>>
    /\ wake = <<>>
    /\ last_resp = <<>>
    /\ metrics = <<>>
    /\ results = <<>>

FetchInit ==
    /\ f_pc = "request"
    /\ f_attempt = 0
    /\ f_responses = <<>>
    /\ f_sleeps = <<>>
    /\ f_last_error = NoneVal
    /\ f_result = NoneVal
    /\ IdleDispatcher
    /\ IdleTables

\* requests.get at the current attempt and the handling of its outcome
FetchRequest ==
    /\ f_pc = "request"
    /\ \E resp \in Responses :
        LET step == FetchStep(resp, f_attempt, FetchUrl, FetchStrategy) IN
        /\ f_responses' = Append(f_responses, resp)
        /\ f_last_error' = IF step.last_error = NoneVal THEN f_last_error ELSE step.last_error
        /\ CASE step.kind = "return" ->
                  /\ f_pc' = "returned"
                  /\ f_result' = [kind |-> "json", body |-> step.value]
                  /\ UNCHANGED <<f_attempt, f_sleeps>>
             [] step.kind = "sleep" ->
                  /\ f_pc' = "sleeping"
                  /\ f_sleeps' = Append(f_sleeps, step.wait)
                  /\ UNCHANGED <<f_attempt, f_result>>
             [] step.kind = "raise" ->
                  /\ f_pc' = "raised"
                  /\ f_result' = step.error
                  /\ UNCHANGED <<f_attempt, f_sleeps>>
             [] step.kind = "escape" ->
                  /\ f_pc' = "escaped"
                  /\ f_result' = step.error
                  /\ UNCHANGED <<f_attempt, f_sleeps>>
    /\ UNCHANGED <<pvars, tvars>>

\* time.sleep returns; `continue` starts the next attempt
FetchWake ==
    /\ f_pc = "sleeping"
    /\ f_pc' = "request"
    /\ f_attempt' = f_attempt + 1
    /\ UNCHANGED <<f_responses, f_sleeps, f_last_error, f_result>>
    /\ UNCHANGED <<pvars, tvars>>

FetchNext == FetchRequest \/ FetchWake

SpecFetch == FetchInit /\ [][FetchNext]_vars

\* ------------------------------------------------- one call of process_urls
task_list == TaskList(cfg.urls, cfg.strategies, cfg.runs)
total_tasks == Len(task_list)
effective_workers == EffectiveWorkers(cfg.workers, total_tasks)
Tasks == 1..total_tasks
NoResp == [kind |-> "none", status |-> 0, hint |-> NoHint, body |-> "none"]

\* started and not yet finished
Running == {"gate", "pacing", "request", "backoff", "lock", "counting"}
InFlight == {i \in DOMAIN pc : pc[i] \in Running}

Configs ==
    {c \in [urls : {SubSeq(UrlPool, 1, n) : n \in 1..MaxUrls},
            strategies : {<<"mobile">>, StrategyPool},
            runs : 0..MaxRuns,
            workers : 0..MaxWorkers,
            delay : {0, MaxDelay}] :
        LET n == Len(c.urls) * Len(c.strategies) * c.runs IN
        /\ c.workers <= n + 1
        /\ n <= IF EffectiveWorkers(c.workers, n) <= 1 THEN MaxTasks ELSE MaxPoolTasks}

Init ==
    /\ cfg \in Configs
    /\ clock = 0
    /\ main_pc = "start"
    /\ max_workers = 0
    /\ semaphore = 0
    /\ lock = 0
    /\ last_request_time = 0
    /\ completed_count = 0
    /\ progress = <<>>
    /\ seen = [i \in Tasks |-> 0]
    /\ pc = [i \in Tasks |-> "queued"]
    /\ attempt = [i \in Tasks |-> 0]
    /\ wake = [i \in Tasks |-> 0]
    /\ last_resp = [i \in Tasks |-> NoResp]
    /\ metrics = [i \in Tasks |-> NoneVal]
    /\ results = <<>>
    /\ IdleFetcher
    /\ IdleTables

\* lines 800-807: the sequential loop, or a ThreadPoolExecutor of
\* effective_workers threads
ChooseMode ==
    /\ main_pc = "start"
    /\ main_pc' = "running"
    /\ max_workers' = IF effective_workers <= 1 THEN 0 ELSE effective_workers
    /\ UNCHANGED <<cfg, clock, semaphore, lock, last_request_time, completed_count,
                   progress, pc, attempt, wake, last_resp, metrics, results>>
    /\ UNCHANGED <<seen, fvars, tvars>>

\* lines 803-804: the loop calls process_single for the next task of the list
StartSequential(i) ==
    /\ main_pc = "running"
    /\ max_workers = 0
    /\ i = Len(results) + 1
    /\ pc[i] = "queued"
    /\ pc' = [pc EXCEPT ![i] = "gate"]
    /\ UNCHANGED <<cfg, clock, main_pc, max_workers, semaphore, lock, last_request_time,
                   completed_count, progress, attempt, wake, last_resp, metrics, results>>
    /\ UNCHANGED <<seen, fvars, tvars>>

\* lines 807-811: a free thread of the pool takes the oldest submitted task
StartPooled(i) ==
    /\ main_pc \in {"running", "unwinding"}
    /\ max_workers > 0
    /\ pc[i] = "queued"
    /\ \A j \in 1..(i - 1) : pc[j] # "queued"
    /\ Cardinality(InFlight) < max_workers
    /\ pc' = [pc EXCEPT ![i] = "gate"]
    /\ UNCHANGED <<cfg, clock, main_pc, max_workers, semaphore, lock, last_request_time,
                   completed_count, progress, attempt, wake, last_resp, metrics, results>>
    /\ UNCHANGED <<seen, fvars, tvars>>

\* lines 759-763: enter the semaphore, read the clock, start the pacing sleep
Acquire(i) ==
    /\ pc[i] = "gate"
    /\ semaphore = 0
    /\ semaphore' = i
    /\ wake' = [wake EXCEPT ![i] = PaceWake(clock, last_request_time, cfg.delay)]
    /\ pc' = [pc EXCEPT ![i] = "pacing"]
    /\ UNCHANGED <<cfg, clock, main_pc, max_workers, lock, last_request_time,
                   completed_count, progress, attempt, last_resp, metrics, results>>
    /\ UNCHANGED <<seen, fvars, tvars>>

\* line 764: after the sleep, stamp last_request_time and leave the semaphore
Stamp(i) ==
    /\ pc[i] = "pacing"
    /\ clock >= wake[i]
    /\ last_request_time' = clock
    /\ semaphore' = Release(i)
    /\ attempt' = [attempt EXCEPT ![i] = 0]
    /\ wake' = [wake EXCEPT ![i] = 0]
    /\ pc' = [pc EXCEPT ![i] = "request"]
    /\ UNCHANGED <<cfg, clock, main_pc, max_workers, lock, completed_count, progress,
                   last_resp, metrics, results>>
    /\ UNCHANGED <<seen, fvars, tvars>>

\* lines 770-778 with 626-667: one requests.get of the task's fetch and what
\* follows from its outcome
Request(i) ==
    /\ pc[i] = "request"
    /\ \E resp \in PoolResponses :
        LET url == task_list[i][1]
            strategy == task_list[i][2]
            step == FetchStep(resp, attempt[i], url, strategy)
        IN
        /\ last_resp' = IF step.kind = "sleep" THEN last_resp
                        ELSE [last_resp EXCEPT ![i] = resp]
        /\ attempt' = IF step.kind = "sleep" THEN attempt ELSE [attempt EXCEPT ![i] = 0]
        /\ CASE step.kind = "return" ->
                  /\ metrics' = [metrics EXCEPT ![i] = extract_metrics(Body(step.value), url, strategy)]
                  /\ pc' = [pc EXCEPT ![i] = "lock"]
                  /\ UNCHANGED <<wake, main_pc>>
             [] step.kind = "sleep" ->
                  /\ wake' = [wake EXCEPT ![i] = clock + step.wait]
                  /\ pc' = [pc EXCEPT ![i] = "backoff"]
                  /\ UNCHANGED <<metrics, main_pc>>
             [] step.kind = "raise" ->
                  /\ metrics' = [metrics EXCEPT ![i] = ErrorRow(url, strategy, step.error)]
                  /\ pc' = [pc EXCEPT ![i] = "lock"]
                  /\ UNCHANGED <<wake, main_pc>>
             [] step.kind = "escape" ->
                  \* not a PageSpeedError: it leaves process_single; in the
                  \* sequential loop it leaves process_urls as well
                  /\ pc' = [pc EXCEPT ![i] = "escaped"]
                  /\ main_pc' = IF max_workers = 0 THEN "raised" ELSE main_pc
                  /\ UNCHANGED <<wake, metrics>>
    /\ UNCHANGED <<cfg, clock, max_workers, semaphore, lock, last_request_time,
                   completed_count, progress, results>>
    /\ UNCHANGED <<seen, fvars, tvars>>

\* lines 647-648, 664-665: the backoff sleep is over, the next attempt begins
Wake(i) ==
    /\ pc[i] = "backoff"
    /\ clock >= wake[i]
    /\ attempt' = [attempt EXCEPT ![i] = attempt[i] + 1]
    /\ wake' = [wake EXCEPT ![i] = 0]
    /\ pc' = [pc EXCEPT ![i] = "request"]
    /\ UNCHANGED <<cfg, clock, main_pc, max_workers, semaphore, lock, last_request_time,
                   completed_count, progress, last_resp, metrics, results>>
    /\ UNCHANGED <<seen, fvars, tvars>>

LockFreeAlways(holder) == TRUE
\* line 780: threading.Lock is free
LockFree(holder) == holder = 0

\* lines 780-781: with lock, then the read of completed_count += 1
LockAcquire(i) ==
    /\ pc[i] = "lock"
    /\ LockFree(lock)
    /\ lock' = i
    /\ seen' = [seen EXCEPT ![i] = completed_count]
    /\ pc' = [pc EXCEPT ![i] = "counting"]
    /\ UNCHANGED <<cfg, clock, main_pc, max_workers, semaphore, last_request_time,
                   completed_count, progress, attempt, wake, last_resp, metrics, results>>
    /\ UNCHANGED <<fvars, tvars>>

\* lines 781-798: the write of completed_count += 1, print the progress, leave
\* the lock, return the row
Count(i) ==
    /\ pc[i] = "counting"
    /\ completed_count' = seen[i] + 1
    /\ progress' = Append(progress, seen[i] + 1)
    /\ seen' = [seen EXCEPT ![i] = 0]
    /\ lock' = 0
    /\ pc' = [pc EXCEPT ![i] = "done"]
    /\ UNCHANGED <<cfg, clock, main_pc, max_workers, semaphore, last_request_time,
                   attempt, wake, last_resp, metrics, results>>
    /\ UNCHANGED <<fvars, tvars>>

\* line 805, lines 813-815: the main thread appends a finished task's row; in
\* the pool, future.result() of a task that an exception left re-raises it
Collect(i) ==
    /\ main_pc = "running"
    /\ pc[i] \in {"done", "escaped"}
    /\ IF pc[i] = "done"
       THEN /\ results' = Append(results, metrics[i])
            /\ pc' = [pc EXCEPT ![i] = "collected"]
            /\ UNCHANGED main_pc
       ELSE /\ main_pc' = "unwinding"
            /\ UNCHANGED <<results, pc>>
    /\ UNCHANGED <<cfg, clock, max_workers, semaphore, lock, last_request_time,
                   completed_count, progress, attempt, wake, last_resp, metrics>>
    /\ UNCHANGED <<seen, fvars, tvars>>

\* line 807: leaving the with block waits for every submitted task, then the
\* exception leaves process_urls
Unwind ==
    /\ main_pc = "unwinding"
    /\ \A i \in Tasks : pc[i] \in {"done", "collected", "escaped"}
    /\ main_pc' = "raised"
    /\ UNCHANGED <<cfg, clock, max_workers, semaphore, lock, last_request_time,
                   completed_count, progress, pc, attempt, wake, last_resp, metrics,
                   results>>
    /\ UNCHANGED <<seen, fvars, tvars>>

\* lines 817-819: every row is in, process_urls returns the table
Return ==
    /\ main_pc = "running"
    /\ \A i \in Tasks : pc[i] = "collected"
    /\ main_pc' = "returned"
    /\ UNCHANGED <<cfg, clock, max_workers, semaphore, lock, last_request_time,
                   completed_count, progress, pc, attempt, wake, last_resp, metrics,
                   results>>
    /\ UNCHANGED <<seen, fvars, tvars>>

\* time passes
Tick ==
    /\ main_pc \in {"running", "unwinding"}
    /\ clock < MaxClock
    /\ clock' = clock + 1
    /\ UNCHANGED <<cfg, main_pc, max_workers, semaphore, lock, last_request_time,
                   completed_count, progress, pc, attempt, wake, last_resp, metrics,
                   results>>
    /\ UNCHANGED <<seen, fvars, tvars>>

Next ==
    \/ ChooseMode
    \/ \E i \in Tasks : StartSequential(i)
    \/ \E i \in Tasks : StartPooled(i)
    \/ \E i \in Tasks : Acquire(i)
    \/ \E i \in Tasks : Stamp(i)
    \/ \E i \in Tasks : Request(i)
    \/ \E i \in Tasks : Wake(i)
    \/ \E i \in Tasks : LockAcquire(i)
    \/ \E i \in Tasks : Count(i)
    \/ \E i \in Tasks : Collect(i)
    \/ Unwind
    \/ Return
    \/ Tick

Spec == Init /\ [][Next]_vars

\* ------------------------------------------------- one budget evaluation
\* the strategy of every row of the tables below
TableStrategy == "mobile"

\* The tables handed to evaluate_budget: a table as the run wrote it, a loaded
\* report without the error column, a table without the lab_lcp_ms column.
BudgetColumnSets ==
    {{"url", "strategy", "error", "performance_score", "lab_lcp_ms"},
     {"url", "strategy", "performance_score", "lab_lcp_ms"},
     {"url", "strategy", "error", "performance_score"}}

\* The cells a column takes: error unset (None), empty or a message; a score
\* and a timing unset, at the threshold of the budgets below and one past it.
BudgetCells(column) ==
    IF column = "error" THEN {NoneVal, Str(""), Str("HTTP 500")}
    ELSE IF column = "performance_score" THEN {NoneVal, Num(89), Num(90)}
    ELSE {NoneVal, Num(2500), Num(2501)}

BudgetRowCells(columns) ==
    LET data == columns \ {"url", "strategy"} IN
    {f \in [data -> UNION {BudgetCells(c) : c \in data}] : \A c \in data : f[c] \in BudgetCells(c)}

\* the table of the given columns and cells; row k is the row of UrlPool[k]
BudgetTable(columns, cells) ==
    [columns |-> columns,
     rows |-> [k \in 1..Len(cells) |->
                 cells[k] @@ [c \in {"url", "strategy"} |->
                    IF c = "url" THEN UrlPool[k] ELSE TableStrategy]]]

\* pd.DataFrame([]): no row and no column
EmptyTable == [columns |-> {}, rows |-> <<>>]

\* The budgets: no threshold, one rule of each direction, and both with a rule
\* on a column no table has and a key the catalog does not know.
Budgets ==
    {[thresholds |-> <<>>],
     [thresholds |-> ("min_performance_score" :> 90)],
     [thresholds |-> ("max_lcp_ms" :> 2500)],
     [thresholds |-> ("min_performance_score" :> 90) @@ ("max_lcp_ms" :> 2500)
                     @@ ("min_seo_score" :> 90) @@ ("max_performance_score" :> 0)]}

\* The arguments of _apply_budget: the format given or defaulted, GITHUB_ACTIONS
\* set or not, a webhook or none, its trigger.
ArgsPool ==
    {[budget_format |-> "text", explicit |-> FALSE, github_actions |-> FALSE,
      webhook |-> NoneVal, webhook_on |-> "always"],
     [budget_format |-> "json", explicit |-> TRUE, github_actions |-> TRUE,
      webhook |-> Str("https://hook"), webhook_on |-> "always"],
     [budget_format |-> "text", explicit |-> FALSE, github_actions |-> TRUE,
      webhook |-> Str("https://hook"), webhook_on |-> "fail"],
     [budget_format |-> "github", explicit |-> TRUE, github_actions |-> FALSE,
      webhook |-> NoneVal, webhook_on |-> "fail"]}

BudgetInit ==
    /\ t_pc = "table"
    /\ api_responses = <<>>
    /\ raw = NoneVal
    /\ total_runs = 0
    /\ \/ dataframe = EmptyTable
       \/ \E columns \in BudgetColumnSets, n \in 0..MaxRows :
             \E cells \in [1..n -> BudgetRowCells(columns)] :
                dataframe = BudgetTable(columns, cells)
    /\ budget \in Budgets
    /\ args = NoneVal
    /\ verdict = NoneVal
    /\ printed = "none"
    /\ delivery = "none"
    /\ exit_code = NoneVal
    /\ IdleFetcher
    /\ IdleDispatcher

\* a call of evaluate_budget
EvaluateBudget ==
    /\ t_pc = "table"
    /\ verdict' = evaluate_budget(dataframe, budget)
    /\ t_pc' = "evaluated"
    /\ UNCHANGED <<api_responses, raw, total_runs, dataframe, budget, args, printed, delivery,
                   exit_code>>
    /\ UNCHANGED <<fvars, pvars>>

\* a call of _apply_budget (lines 1120-1152): evaluate, print, deliver, return
ApplyBudget ==
    /\ t_pc = "table"
    /\ \E a \in ArgsPool, outcome \in PostOutcomes :
        LET v == evaluate_budget(dataframe, budget)
            sent == v.verdict # "error" /\ WebhookTriggered(a, v)
            escapes == sent /\ outcome # "delivered" /\ ~WebhookCaught(outcome)
        IN
        /\ sent \/ outcome = "delivered"
        /\ args' = a
        /\ verdict' = v
        /\ printed' = IF v.verdict = "error" THEN "error" ELSE Formatter(a)
        /\ delivery' = IF sent THEN outcome ELSE "none"
        /\ exit_code' = IF escapes THEN exit_code ELSE ExitCode(v)
        /\ t_pc' = IF escapes THEN "raised" ELSE "applied"
    /\ UNCHANGED <<api_responses, raw, total_runs, dataframe, budget>>
    /\ UNCHANGED <<fvars, pvars>>

BudgetNext == EvaluateBudget \/ ApplyBudget

SpecBudget == BudgetInit /\ [][BudgetNext]_vars

\* --------------------------------------------------- one multi-run reduction
\* the messages and the timestamps of the rows of a raw table, by position
ErrorPool == <<"HTTP 500 (1)", "HTTP 500 (2)", "HTTP 500 (3)", "HTTP 500 (4)", "HTTP 500 (5)">>
TimePool == <<"t1", "t2", "t3", "t4", "t5">>

ScorePool == {80, 90, 91, 92, 100}

\* What one run yields: an error, or a score, a timing and a field bucket, each
\* of them possibly unset.
RunOutcomes ==
    {[ok |-> FALSE, performance_score |-> NoneVal, lab_lcp_ms |-> NoneVal,
      field_lcp_category |-> NoneVal]}
    \cup {[ok |-> TRUE, performance_score |-> Num(x), lab_lcp_ms |-> Num(2500),
           field_lcp_category |-> Str("FAST")] : x \in ScorePool}
    \cup {[ok |-> TRUE, performance_score |-> NoneVal, lab_lcp_ms |-> Num(2500),
           field_lcp_category |-> Str("FAST")],
          [ok |-> TRUE, performance_score |-> Num(90), lab_lcp_ms |-> NoneVal,
           field_lcp_category |-> Str("FAST")],
          [ok |-> TRUE, performance_score |-> Num(91), lab_lcp_ms |-> Num(2501),
           field_lcp_category |-> Str("FAST")],
          [ok |-> TRUE, performance_score |-> Num(90), lab_lcp_ms |-> Num(2500),
           field_lcp_category |-> Str("SLOW")],
          [ok |-> TRUE, performance_score |-> Num(90), lab_lcp_ms |-> Num(2500),
           field_lcp_category |-> NoneVal]}

\* the row that process_single returns for the run at position k (lines 766-778)
RawRow(url, k, outcome) ==
    IF outcome.ok
    THEN [c \in {"url", "strategy", "error", "performance_score", "lab_lcp_ms",
                 "field_lcp_category", "fetch_time"} |->
            IF c = "url" THEN url
            ELSE IF c = "strategy" THEN TableStrategy
            ELSE IF c = "error" THEN NoneVal
            ELSE IF c = "fetch_time" THEN Str(TimePool[k])
            ELSE outcome[c]]
    ELSE ErrorRow(url, TableStrategy, Str(ErrorPool[k]))

\* line 748: the values of `runs` with which a list of urls yields `rows` tasks
\* for each of its distinct urls: `rows` itself and, for a single url that the
\* list names `rows` times, 1
RunsFor(keys, rows) == IF keys = 1 THEN {rows, 1} ELSE {rows}

\* the arrival orders of `runs` rows of each of `keys` urls
KeyOrders(keys, runs) ==
    {o \in [1..(keys * runs) -> 1..keys] :
        \A q \in 1..keys : Cardinality({k \in 1..(keys * runs) : o[k] = q}) = runs}

\* The raw table of line 818 for the arrival order `order` of the urls and
\* the outcomes of the runs: each row an error row or a metrics row.
RawTable(order, outcomes) ==
    DataFrame([k \in 1..Len(order) |-> RawRow(UrlPool[order[k]], k, outcomes[k])])

\* the budget of the evaluation that follows the reduction
AggregateBudget ==
    [thresholds |-> ("min_performance_score" :> 90) @@ ("max_lcp_ms" :> 2500)]

AggregateInit ==
    /\ t_pc = "raw"
    /\ api_responses = <<>>
    /\ \E keys \in 1..MaxKeys, runs \in 1..MaxAggRuns :
          /\ keys * runs <= MaxRaw
          /\ total_runs \in RunsFor(keys, runs)
          /\ \E order \in KeyOrders(keys, runs) :
                \E outcomes \in [1..(keys * runs) -> RunOutcomes] :
                   raw = RawTable(order, outcomes)
    /\ dataframe = NoneVal
    /\ budget = AggregateBudget
    /\ args = NoneVal
    /\ verdict = NoneVal
    /\ printed = "none"
    /\ delivery = "none"
    /\ exit_code = NoneVal
    /\ IdleFetcher
    /\ IdleDispatcher

\* line 819: the raw table is reduced
Aggregate ==
    /\ t_pc = "raw"
    /\ dataframe' = aggregate_multi_run(raw, total_runs)
    /\ t_pc' = "table"
    /\ UNCHANGED <<api_responses, raw, total_runs, budget, args, verdict, printed, delivery,
                   exit_code>>
    /\ UNCHANGED <<fvars, pvars>>

AggregateNext == Aggregate \/ EvaluateBudget

SpecAggregate == AggregateInit /\ [][AggregateNext]_vars

\* ------------------------------------------------- extraction of responses
MaxResponses == 2

\* first-contentful-paint timings in tenths: 1234.5, 1235.5, 1234.6
TimingPool == {12345, 12355, 12346}
\* performance scores in thousandths: 0.92, 0.905
ScoreThousandths == {920, 905}
\* layout-shift percentiles
PercentilePool == {10, 0}
\* the responses of the runs of one url: full, with a score of 0.90, 0.91 or
\* 0.92 or without one
RunResponses ==
    {Response(absent, 12345, score, 10) : absent \in {{}, {"score"}}, score \in {900, 910, 920}}

\* one response with any of its optional parts absent, or the responses of
\* several runs of one url
ExtractInit ==
    /\ t_pc = "responses"
    /\ \/ \E absent \in SUBSET ResponseParts, timing \in TimingPool,
             score \in ScoreThousandths, percentile \in PercentilePool :
             api_responses = <<Response(absent, timing, score, percentile)>>
       \/ \E n \in 2..MaxResponses : api_responses \in [1..n -> RunResponses]
    /\ raw = NoneVal
    /\ total_runs = 0
    /\ dataframe = NoneVal
    /\ budget = NoneVal
    /\ args = NoneVal
    /\ verdict = NoneVal
    /\ printed = "none"
    /\ delivery = "none"
    /\ exit_code = NoneVal
    /\ IdleFetcher
    /\ IdleDispatcher

\* lines 768, 805-819: each run's response is extracted into a row, the rows
\* make the raw table
Extract ==
    /\ t_pc = "responses"
    /\ raw' = DataFrame([k \in 1..Len(api_responses) |->
                            extract_metrics(api_responses[k], FetchUrl, TableStrategy)])
    /\ total_runs' = Len(api_responses)
    /\ t_pc' = "raw"
    /\ UNCHANGED <<api_responses, dataframe, budget, args, verdict, printed, delivery,
                   exit_code>>
    /\ UNCHANGED <<fvars, pvars>>

ExtractNext == Extract \/ Aggregate

SpecExtract == ExtractInit /\ [][ExtractNext]_vars



\* ------------------------------------------------------------------ claims
\* The conditions section 4.1 of the specification calls retryable: the
\* statuses 429, 500, 503 and a transport error of the requests library.
IsRetryableStatus(r) == r.kind = "response" /\ r.status \in {429, 500, 503}
IsRetryableFailure(r) == IsRetryableStatus(r) \/ r.kind = "RequestException"
\* A wait hint the call uses: a non-empty Retry-After on a 429.
HasUsableHint(r) == r.kind = "response" /\ r.status = 429 /\ r.hint.present /\ ~r.hint.empty
Resp500 == [kind |-> "response", status |-> 500, hint |-> NoHint, body |-> "detail"]
Resp200 == [kind |-> "response", status |-> 200, hint |-> NoHint, body |-> "full"]

\* C3: one call makes at most 4 requests; after failed attempt i (0, 1, 2) with a
\* retryable failure and no usable hint it sleeps exactly 2*2^i; [500, 200]
\* sleeps once for 2; after 4 retryable statuses there are exactly 3 sleeps and
\* the call has failed.
C3_RetrySchedule ==
    /\ Len(f_responses) <= 4
    /\ Len(f_sleeps) <= 3
    /\ \A i \in 1..Len(f_responses) :
          (i <= 3 /\ IsRetryableFailure(f_responses[i]) /\ ~HasUsableHint(f_responses[i]))
          => (Len(f_sleeps) >= i /\ f_sleeps[i] = 2 * Pow2(i - 1))
    /\ (f_responses = <<Resp500, Resp200>>) => (f_sleeps = <<2>> /\ f_pc = "returned")
    /\ (Len(f_responses) = 4 /\ \A i \in 1..4 : IsRetryableStatus(f_responses[i]))
          => (Len(f_sleeps) = 3 /\ f_pc = "raised" /\ f_result.kind = "PageSpeedError")

C3_Witness ==
    /\ Len(f_responses) = 4
    /\ \A i \in 1..4 : IsRetryableStatus(f_responses[i]) /\ ~HasUsableHint(f_responses[i])
    /\ f_sleeps = <<2, 4, 8>>
    /\ f_pc = "raised"

\* C6: a 200 response whose body encodes an application error, or lacks the
\* lighthouseResult object, makes the call raise PageSpeedError at once and is
\* never returned as a result.
C6_ErrorBodyRaises ==
    /\ \A i \in 1..Len(f_responses) :
          (f_responses[i].kind = "response" /\ f_responses[i].status = 200
             /\ f_responses[i].body \in {"error_body", "no_lighthouse"})
          => (f_pc = "raised" /\ f_result.kind = "PageSpeedError")
    /\ f_pc = "returned" => f_result.body = "full"

\* C7: a status other than 200, 429, 500, 503, on whichever attempt, makes the
\* call raise a PageSpeedError naming the status: it is the last request and no
\* sleep follows it.
C7_NonRetryableStatus ==
    \A i \in 1..Len(f_responses) :
        (f_responses[i].kind = "response" /\ f_responses[i].status \notin {200, 429, 500, 503})
        => /\ i = Len(f_responses)
           /\ Len(f_sleeps) = i - 1
           /\ f_pc = "raised"
           /\ f_result.kind = "PageSpeedError"
           /\ f_result.text = "HTTP"
           /\ f_result.status = f_responses[i].status

C7_Witness ==
    /\ Len(f_responses) = 3
    /\ f_responses[3].kind = "response" /\ f_responses[3].status = 403
    /\ f_pc = "raised"
    /\ f_result.status = 403

\* C8: a request that itself fails (connection failure, timeout, DNS or OS-level
\* failure) is retried after one sleep while retries remain, [transport error,
\* 200] returns the payload after exactly one sleep, and the error reaches the
\* caller only after the 4th attempt, as a PageSpeedError.
IsTransportFailure(r) == r.kind \in {"RequestException", "OSError"}
C8_TransportErrorsRetried ==
    /\ \A i \in 1..Len(f_responses) :
          IsTransportFailure(f_responses[i])
          => IF i <= 3 THEN Len(f_sleeps) >= i /\ f_sleeps[i] = 2 * Pow2(i - 1)
             ELSE f_pc = "raised" /\ f_result.kind = "PageSpeedError"
    /\ (Len(f_responses) = 2 /\ IsTransportFailure(f_responses[1]) /\ f_responses[2] = Resp200)
          => (Len(f_sleeps) = 1 /\ f_pc = "returned")
    /\ (f_pc \in {"raised", "escaped"} /\ IsTransportFailure(f_responses[Len(f_responses)]))
          => (Len(f_responses) = 4 /\ f_result.kind = "PageSpeedError")

\* C9: a 429 with a wait hint, retries remaining, sleeps exactly the hint at any
\* attempt index ([429 with hint 5, 200] sleeps 5 once); a 500 or 503 with a hint
\* and a 429 without one sleep 2*2^attempt.
C9_WaitHint ==
    /\ \A i \in 1..Len(f_responses) :
          LET r == f_responses[i] IN
          (i <= 3 /\ IsRetryableStatus(r))
          => /\ Len(f_sleeps) >= i
             /\ f_sleeps[i] = IF r.status = 429 /\ r.hint.present /\ ~r.hint.empty
                               THEN r.hint.secs ELSE 2 * Pow2(i - 1)
    /\ (Len(f_responses) = 2 /\ f_responses[2] = Resp200
          /\ f_responses[1] = [kind |-> "response", status |-> 429, body |-> "detail",
                               hint |-> [present |-> TRUE, empty |-> FALSE, secs |-> 5]])
          => (f_sleeps = <<5>> /\ f_pc = "returned")

C9_Witness ==
    /\ Len(f_responses) = 3
    /\ f_responses[1].status = 500 /\ f_responses[1].hint.secs = 5
          /\ f_responses[1].hint.present
    /\ f_responses[2].status = 429 /\ f_responses[2].hint = NoHint
    /\ f_responses[3].status = 429 /\ f_responses[3].hint.secs = 5
          /\ f_responses[3].hint.present
    /\ f_sleeps = <<2, 4, 5>>

\* ------------------------------------------------- claims on process_urls
Max(a, b) == IF a >= b THEN a ELSE b
NumTasks == Len(cfg.urls) * Len(cfg.strategies) * Max(cfg.runs, 0)
PastGate == {i \in DOMAIN pc : pc[i] \notin {"queued", "gate", "pacing"}}

\* A fetch that ended any other way than with a full result
FetchFailed(r) == ~(r.kind = "response" /\ r.status = 200 /\ r.body = "full")

\* C1: with runs = 1, whichever fetches fail and however they fail, no failure
\* aborts the batch, and the returned table has one row per task: a failed
\* task's row carries only url, strategy and an error, every other row is
\* extracted in full with error unset.
C1_FailureIsolation ==
    /\ main_pc \notin {"unwinding", "raised"}
    /\ (main_pc = "returned" /\ cfg.runs = 1) =>
          /\ Len(results) = NumTasks
          /\ \A i \in Tasks :
                \E k \in 1..Len(results) :
                    /\ results[k].url = task_list[i][1]
                    /\ results[k].strategy = task_list[i][2]
                    /\ IF FetchFailed(last_resp[i])
                       THEN /\ DOMAIN results[k] = {"url", "strategy", "error"}
                            /\ results[k].error # NoneVal
                       ELSE /\ results[k].error = NoneVal
                            /\ results[k].performance_score # NoneVal
                            /\ results[k].fetch_time # NoneVal

\* C2: at most one task is inside the pacing section, last_request_time never
\* decreases, and every value written to it on leaving the section is at least
\* `delay` later than the value it replaces (so the dispatch instants are
\* pairwise at least `delay` apart).
C2_GlobalPacing ==
    /\ [](Cardinality({i \in DOMAIN pc : pc[i] = "pacing"}) <= 1)
    /\ [][last_request_time' >= last_request_time]_vars
    /\ [][(\E i \in DOMAIN pc : pc[i] = "pacing" /\ pc'[i] # "pacing")
            => last_request_time' >= last_request_time + cfg.delay]_vars

C2_Witness ==
    /\ cfg.delay > 0
    /\ max_workers >= 2
    /\ Cardinality(PastGate) >= 2
    /\ last_request_time = 2 * cfg.delay
    /\ \E i \in DOMAIN pc : pc[i] = "request"

C5_SequentialOrder ==
    Min(cfg.workers, NumTasks) <= 1 =>
        /\ Cardinality(InFlight) <= 1
        /\ \A i \in DOMAIN pc : pc[i] # "queued" => \A j \in 1..(i - 1) : pc[j] = "collected"
        /\ Len(results) = Cardinality({i \in DOMAIN pc : pc[i] = "collected"})
        /\ \A k \in 1..Len(results) :
              LET pair == (k - 1) % (Len(cfg.urls) * Len(cfg.strategies)) IN
              /\ pc[k] = "collected"
              /\ results[k].url = cfg.urls[(pair \div Len(cfg.strategies)) + 1]
              /\ results[k].strategy = cfg.strategies[(pair % Len(cfg.strategies)) + 1]

C5_Witness ==
    /\ Min(cfg.workers, NumTasks) <= 1
    /\ Len(cfg.urls) = 2 /\ Len(cfg.strategies) = 2
    /\ main_pc = "returned"
    /\ Len(results) = 4
    /\ results[2].url = "a.com" /\ results[2].strategy = "desktop"
    /\ results[3].url = "b.com" /\ results[3].strategy = "mobile"

\* C10: every request attempt, retries included, is entered from the pacing
\* gate: a task starts an attempt only on leaving the pacing section.
C10_EveryAttemptPaced ==
    [][\A i \in DOMAIN pc : (pc[i] # "request" /\ pc'[i] = "request") => pc[i] = "pacing"]_vars

\* C11: no task holds the pacing semaphore or the counter lock while its fetch
\* (a request or a retry-backoff sleep) is in progress, the semaphore is held
\* only inside the pacing section and the lock only while counting, and no task
\* holds both at once.
C11_LocksDoNotSerializeIO ==
    /\ \A i \in DOMAIN pc :
          pc[i] \in {"request", "backoff"} => (semaphore # i /\ lock # i)
    /\ semaphore # 0 => pc[semaphore] = "pacing"
    /\ lock # 0 => pc[lock] = "counting"
    /\ ~(semaphore # 0 /\ semaphore = lock)

\* with workers >= 2, two tasks are inside their fetch at the same time
C11_Witness ==
    /\ cfg.workers >= 2
    /\ \E i, j \in DOMAIN pc :
          /\ i # j
          /\ pc[i] \in {"request", "backoff"}
          /\ pc[j] \in {"request", "backoff"}
    /\ semaphore = 0
    /\ lock = 0

\* --------------------------------------- claims on the exhaustion message
\* C12: when the call fails after 4 attempts that all failed with retryable
\* conditions (retryable statuses, transport errors of the requests library, or
\* a mix), the error names the url, the strategy, the attempt count 4 and the
\* last cause.
C12_ExhaustionMessage ==
    (/\ f_pc \in {"raised", "escaped"}
     /\ Len(f_responses) = 4
     /\ \A i \in 1..4 : IsRetryableFailure(f_responses[i]))
    => /\ f_result.kind = "PageSpeedError"
       /\ f_result.url = FetchUrl
       /\ f_result.strategy = FetchStrategy
       /\ f_result.attempts = 4
       /\ f_result.cause # "none"

\* ------------------------------------------------ claims on evaluate_budget
\* evaluate_budget has returned
Evaluated == t_pc \in {"evaluated", "applied"}

\* A row whose error is set: the table has the error column and the cell is
\* neither unset nor the empty string.
HasErrorSet(row) ==
    "error" \in DOMAIN row /\ row["error"] # NoneVal /\ row["error"] # Str("")

\* the rows with error unset, in table order
EvaluableRows == SelectSeq(dataframe.rows, LAMBDA row : ~HasErrorSet(row))

MinRuleKeys == {"min_performance_score", "min_accessibility_score",
            "min_best_practices_score", "min_seo_score"}
MaxRuleKeys == {"max_lcp_ms", "max_cls", "max_tbt_ms", "max_fcp_ms"}

\* the catalog's entry of a key
CatalogRule(key) ==
    CHOOSE rule \in {BUDGET_METRIC_MAP[k] : k \in 1..Len(BUDGET_METRIC_MAP)} : rule.key = key

\* the rule of `key` is in the budget, its column is in the table, the row's
\* value is set, and the value is below a minimum or above a maximum
RuleBroken(key, row) ==
    /\ key \in DOMAIN budget.thresholds
    /\ CatalogRule(key).column \in dataframe.columns
    /\ row[CatalogRule(key).column] # NoneVal
    /\ IF key \in MinRuleKeys
       THEN row[CatalogRule(key).column].v < budget.thresholds[key]
       ELSE row[CatalogRule(key).column].v > budget.thresholds[key]

\* C13: the verdict is "error" iff no row has error unset (the empty table
\* included); otherwise it is "fail" iff some such row breaks some rule, else
\* "pass"; a row's verdict is "fail" iff its violation list is non-empty; with
\* no thresholds every evaluated row passes.
C13_VerdictTriState ==
    Evaluated =>
        /\ verdict.verdict \in {"error", "fail", "pass"}
        /\ verdict.verdict = "error" <=> EvaluableRows = <<>>
        /\ verdict.verdict = "fail" <=>
              \E k \in 1..Len(EvaluableRows), key \in MinRuleKeys \cup MaxRuleKeys :
                  RuleBroken(key, EvaluableRows[k])
        /\ \A k \in 1..Len(verdict.results) :
              /\ verdict.results[k].verdict \in {"fail", "pass"}
              /\ verdict.results[k].verdict = "fail" <=> verdict.results[k].violations # <<>>
        /\ budget.thresholds = <<>> =>
              \A k \in 1..Len(verdict.results) : verdict.results[k].verdict = "pass"

\* a failing verdict over one passing row and one failing row
C13_Witness ==
    /\ t_pc = "evaluated"
    /\ Len(dataframe.rows) = 2
    /\ verdict.verdict = "fail"
    /\ verdict.passed = 1
    /\ verdict.failed = 1

\* C14: for each of the 8 catalog keys, the rule yields exactly one violation
\* on a row when the key is in the budget, the column is in the table, the value
\* is set and it is below the minimum (min_* keys) or above the maximum (max_*
\* keys), and none otherwise, so a value equal to the threshold passes; the
\* violation records the catalog's column, the value, the threshold and the
\* catalog's operator, and no violation names anything else.
C14_RuleSemantics ==
    Evaluated =>
        /\ Len(verdict.results) = Len(EvaluableRows)
        /\ \A k \in 1..Len(verdict.results) :
              LET violations == verdict.results[k].violations
                  row == EvaluableRows[k]
              IN
              /\ \A key \in MinRuleKeys \cup MaxRuleKeys :
                    LET rule == CatalogRule(key)
                        hits == {j \in 1..Len(violations) : violations[j].metric = rule.column}
                    IN
                    /\ Cardinality(hits) = IF RuleBroken(key, row) THEN 1 ELSE 0
                    /\ \A j \in hits :
                          violations[j] =
                             [metric |-> rule.column, actual |-> row[rule.column],
                              threshold |-> budget.thresholds[key],
                              operator |-> IF key \in MinRuleKeys THEN ">=" ELSE "<="]
              /\ \A j \in 1..Len(violations) :
                    \E key \in (MinRuleKeys \cup MaxRuleKeys) \cap DOMAIN budget.thresholds :
                        violations[j].metric = CatalogRule(key).column
              /\ (budget.thresholds = ("min_performance_score" :> 90)
                    /\ "performance_score" \in dataframe.columns)
                 => /\ row["performance_score"] = Num(89) => Len(violations) = 1
                    /\ row["performance_score"] = Num(90) => Len(violations) = 0

\* a score at its minimum with a timing past its maximum, and a score below
\* its minimum with a timing at its maximum
C14_Witness ==
    /\ t_pc = "evaluated"
    /\ DOMAIN budget.thresholds =
          {"min_performance_score", "max_lcp_ms", "min_seo_score", "max_performance_score"}
    /\ Len(verdict.results) = 2
    /\ dataframe.columns = {"url", "strategy", "performance_score", "lab_lcp_ms"}
    /\ dataframe.rows[1]["performance_score"] = Num(90)
    /\ dataframe.rows[1]["lab_lcp_ms"] = Num(2501)
    /\ dataframe.rows[2]["performance_score"] = Num(89)
    /\ dataframe.rows[2]["lab_lcp_ms"] = Num(2500)
    /\ Len(verdict.results[1].violations) = 1
    /\ verdict.results[1].violations[1].operator = "<="
    /\ Len(verdict.results[2].violations) = 1
    /\ verdict.results[2].violations[1].operator = ">="

\* C15: errors_skipped is the number of rows with error set; no such row is in
\* results or counted; total = passed + failed = the number of result entries =
\* the number of rows with error unset; errors_skipped + total is the number of
\* rows when some row is evaluable.
C15_VerdictCounts ==
    Evaluated =>
        LET errored == {k \in 1..Len(dataframe.rows) : HasErrorSet(dataframe.rows[k])} IN
        /\ verdict.errors_skipped = Cardinality(errored)
        /\ \A k \in errored : \A j \in 1..Len(verdict.results) :
              verdict.results[j].url # dataframe.rows[k]["url"]
        /\ verdict.total = verdict.passed + verdict.failed
        /\ verdict.total = Len(verdict.results)
        /\ verdict.total = Len(dataframe.rows) - Cardinality(errored)
        /\ verdict.passed =
              Cardinality({j \in 1..Len(verdict.results) : verdict.results[j].verdict = "pass"})
        /\ verdict.failed =
              Cardinality({j \in 1..Len(verdict.results) : verdict.results[j].verdict = "fail"})
        /\ EvaluableRows # <<>> =>
              verdict.errors_skipped + verdict.total = Len(dataframe.rows)

\* a row with a message is skipped, a row with the empty error is evaluated
C15_Witness ==
    /\ t_pc = "evaluated"
    /\ Len(dataframe.rows) = 2
    /\ "error" \in dataframe.columns
    /\ dataframe.rows[1]["error"] = Str("HTTP 500")
    /\ dataframe.rows[2]["error"] = Str("")
    /\ verdict.errors_skipped = 1
    /\ verdict.total = 1
    /\ verdict.results[1].url = dataframe.rows[2]["url"]

\* C16: a rule whose column the table lacks, and a rule whose value is unset in
\* a row, yield no violation for that row; a row on which every rule of the
\* budget is skipped in one of these ways passes.
C16_AbsenceIsNotViolation ==
    Evaluated =>
        \A k \in 1..Len(verdict.results) :
            LET row == EvaluableRows[k]
                keys == (MinRuleKeys \cup MaxRuleKeys) \cap DOMAIN budget.thresholds
                Skipped(key) ==
                    \/ CatalogRule(key).column \notin dataframe.columns
                    \/ row[CatalogRule(key).column] = NoneVal
            IN
            /\ \A key \in keys :
                  Skipped(key) =>
                      \A j \in 1..Len(verdict.results[k].violations) :
                          verdict.results[k].violations[j].metric # CatalogRule(key).column
            /\ (\A key \in keys : Skipped(key)) => verdict.results[k].verdict = "pass"

\* three rules, each skipped: the timing and seo columns are absent and the
\* score is unset
C16_Witness ==
    /\ t_pc = "evaluated"
    /\ "max_lcp_ms" \in DOMAIN budget.thresholds
    /\ "min_seo_score" \in DOMAIN budget.thresholds
    /\ "lab_lcp_ms" \notin dataframe.columns
    /\ Len(dataframe.rows) = 1
    /\ dataframe.rows[1]["performance_score"] = NoneVal
    /\ verdict.results = <<[url |-> "a.com", strategy |-> "mobile", verdict |-> "pass",
                            violations |-> <<>>]>>

\* C17: _apply_budget returns 0 iff the verdict is "pass", 2 iff it is "fail"
\* and 1 iff it is "error", whatever the format, the webhook configuration and
\* the outcome of the delivery.
C17_ExitCodeContract ==
    t_pc = "applied" =>
        /\ exit_code \in {0, 1, 2}
        /\ exit_code = 0 <=> verdict.verdict = "pass"
        /\ exit_code = 2 <=> verdict.verdict = "fail"
        /\ exit_code = 1 <=> verdict.verdict = "error"

\* a failing verdict printed as JSON whose webhook delivery failed
C17_Witness ==
    /\ t_pc = "applied"
    /\ verdict.verdict = "fail"
    /\ args.budget_format = "json"
    /\ printed = "json"
    /\ delivery = "HTTPError"
    /\ exit_code = 2

\* -------------------------------------------- claims on aggregate_multi_run
\* aggregate_multi_run has returned
Aggregated == t_pc \in {"table", "evaluated"}

\* the urls of the raw table (every row has the strategy TableStrategy)
RawUrls == {raw.rows[k]["url"] : k \in 1..Len(raw.rows)}

\* the rows of the raw table for a url, in table order, and those without error
RawGroup(url) == SelectSeq(raw.rows, LAMBDA row : row["url"] = url)
RawSuccesses(url) == SelectSeq(RawGroup(url), LAMBDA row : row["error"] = NoneVal)

\* the aggregated rows of a url
OutRows(url) == SelectSeq(dataframe.rows, LAMBDA row : row["url"] = url)

\* the set values of a column in the successful rows of a url
SetValues(url, column) ==
    LET cells == SelectSeq([k \in 1..Len(RawSuccesses(url)) |->
                               Get(RawSuccesses(url)[k], column)],
                           LAMBDA cell : cell # NoneVal)
    IN [k \in 1..Len(cells) |-> cells[k].v]

\* the k-th smallest of a non-empty sequence of numbers
Kth(values, k) ==
    CHOOSE x \in {values[i] : i \in 1..Len(values)} :
        /\ Cardinality({i \in 1..Len(values) : values[i] < x}) < k
        /\ Cardinality({i \in 1..Len(values) : values[i] <= x}) >= k

\* twice the median: the middle value counted twice, or the sum of the two
\* middle values
DoubleMedian(values) ==
    Kth(values, (Len(values) + 1) \div 2) + Kth(values, (Len(values) \div 2) + 1)

\* v is the number nearest to half of `twice`, the even one of the two when
\* `twice` is odd
IsRoundedHalf(v, twice) ==
    IF twice % 2 = 0 THEN 2 * v = twice
    ELSE (2 * v = twice - 1 \/ 2 * v = twice + 1) /\ v % 2 = 0

\* C18: with runs > 1, a group in which every run errored aggregates to exactly
\* one row, which keeps the error of the group's first row and has
\* runs_completed = 0 and score_range and score_stddev unset; evaluate_budget
\* on the aggregated table does not evaluate that row and counts it in
\* errors_skipped.
C18_AllErroredGroup ==
    (Aggregated /\ total_runs > 1) =>
        LET failed == {u \in RawUrls : RawSuccesses(u) = <<>>} IN
        /\ \A u \in failed :
              /\ Len(OutRows(u)) = 1
              /\ OutRows(u)[1]["error"] = RawGroup(u)[1]["error"]
              /\ OutRows(u)[1]["error"] # NoneVal
              /\ OutRows(u)[1]["strategy"] = TableStrategy
              /\ OutRows(u)[1]["runs_completed"] = Num(0)
              /\ OutRows(u)[1]["score_range"] = NoneVal
              /\ OutRows(u)[1]["score_stddev"] = NoneVal
        /\ t_pc = "evaluated" =>
              /\ \A u \in failed : \A j \in 1..Len(verdict.results) : verdict.results[j].url # u
              /\ verdict.errors_skipped = Cardinality(failed)

\* two runs of each of two urls: every run of one url errored, the other url
\* has a scored run; the budget is evaluated on the one row left
C18_Witness ==
    /\ t_pc = "evaluated"
    /\ total_runs = 2
    /\ Len(raw.rows) = 4
    /\ RawSuccesses("a.com") = <<>>
    /\ RawGroup("a.com")[1]["error"] = Str("HTTP 500 (2)")
    /\ RawSuccesses("b.com") # <<>>
    /\ OutRows("a.com")[1]["error"] = Str("HTTP 500 (2)")
    /\ verdict.errors_skipped = 1
    /\ verdict.total = 1

\* the raw table without the errored rows of a url
WithoutErrorsOf(url) ==
    [columns |-> raw.columns,
     rows |-> SelectSeq(raw.rows, LAMBDA row : row["url"] # url \/ row["error"] = NoneVal)]

\* the row of a url in a table that has exactly one
RowOf(table, url) ==
    CHOOSE row \in {table.rows[k] : k \in 1..Len(table.rows)} : row["url"] = url

\* C19: with runs > 1, in a group with both errored and successful rows the
\* aggregated error is unset, runs_completed is the number of successful rows
\* and the aggregated row is the one the table gives without the group's errored
\* rows; a single successful row passes its values on with runs_completed = 1;
\* score_range = 0 and score_stddev = 0.0 when exactly one successful row has a
\* score, both unset when none has.
C19_MixedGroup ==
    (Aggregated /\ total_runs > 1) =>
        \A u \in RawUrls :
            (RawSuccesses(u) # <<>> /\ Len(RawSuccesses(u)) < Len(RawGroup(u))) =>
                LET out == OutRows(u)[1]
                    scores == SetValues(u, "performance_score")
                IN
                /\ Len(OutRows(u)) = 1
                /\ out["error"] = NoneVal
                /\ out["runs_completed"] = Num(Len(RawSuccesses(u)))
                /\ out = RowOf(aggregate_multi_run(WithoutErrorsOf(u), total_runs), u)
                /\ Len(RawSuccesses(u)) = 1 =>
                      \A c \in {"performance_score", "lab_lcp_ms", "fetch_time"} :
                          out[c] = RawSuccesses(u)[1][c]
                /\ Len(scores) = 1 =>
                      (out["score_range"] = Num(0) /\ out["score_stddev"] = Tenths(0))
                /\ Len(scores) = 0 =>
                      (out["score_range"] = NoneVal /\ out["score_stddev"] = NoneVal)

\* two errored runs and then one successful run with score 92
C19_Witness ==
    /\ t_pc = "table"
    /\ total_runs = 3
    /\ Len(raw.rows) = 3
    /\ raw.rows[1]["error"] # NoneVal
    /\ raw.rows[2]["error"] # NoneVal
    /\ raw.rows[3]["error"] = NoneVal
    /\ raw.rows[3]["performance_score"] = Num(92)
    /\ Len(dataframe.rows) = 1
    /\ dataframe.rows[1]["performance_score"] = Num(92)
    /\ dataframe.rows[1]["runs_completed"] = Num(1)
    /\ dataframe.rows[1]["score_range"] = Num(0)
    /\ dataframe.rows[1]["fetch_time"] = Str("t3")

\* the parts of C20 that do not depend on how a median is rounded: one row per
\* key, score_range and runs_completed of a group with at least 2 scores
C20_Frame ==
    /\ Len(dataframe.rows) = Cardinality(RawUrls)
    /\ \A u \in RawUrls :
          /\ Len(OutRows(u)) = 1
          /\ Len(SetValues(u, "performance_score")) >= 2 =>
                LET scores == SetValues(u, "performance_score") IN
                /\ OutRows(u)[1]["score_range"] =
                      Num(Kth(scores, Len(scores)) - Kth(scores, 1))
                /\ OutRows(u)[1]["runs_completed"] = Num(Len(RawSuccesses(u)))
                /\ (scores = <<92, 92, 92>> /\ Len(RawSuccesses(u)) = 3) =>
                      /\ OutRows(u)[1]["performance_score"] = Num(92)
                      /\ OutRows(u)[1]["score_range"] = Num(0)
                      /\ OutRows(u)[1]["runs_completed"] = Num(3)
                /\ scores = <<80, 90, 100>> =>
                      /\ OutRows(u)[1]["performance_score"] = Num(90)
                      /\ OutRows(u)[1]["score_range"] = Num(20)

\* C20 as stated: with runs > 1 there is exactly one aggregated row per key;
\* for a group with at least 2 scored successful rows the aggregated
\* performance_score is the median of the scores, score_range their max minus
\* min and runs_completed the number of successful rows; every other numeric
\* column is the median of its set successful values, unset when there are none.
C20_MedianReduction ==
    (Aggregated /\ total_runs > 1) =>
        /\ C20_Frame
        /\ \A u \in RawUrls :
              RawSuccesses(u) # <<>> =>
                  /\ Len(SetValues(u, "performance_score")) >= 2 =>
                        2 * OutRows(u)[1]["performance_score"].v =
                            DoubleMedian(SetValues(u, "performance_score"))
                  /\ IF SetValues(u, "lab_lcp_ms") = <<>>
                     THEN OutRows(u)[1]["lab_lcp_ms"] = NoneVal
                     ELSE 2 * OutRows(u)[1]["lab_lcp_ms"].v =
                              DoubleMedian(SetValues(u, "lab_lcp_ms"))

\* C20, amended: as above, with each median rounded to the nearest integer, an
\* exact half (the median of an even number of values) going to the even one.
C20_RoundedMedianReduction ==
    (Aggregated /\ total_runs > 1) =>
        /\ C20_Frame
        /\ \A u \in RawUrls :
              RawSuccesses(u) # <<>> =>
                  /\ Len(SetValues(u, "performance_score")) >= 2 =>
                        IsRoundedHalf(OutRows(u)[1]["performance_score"].v,
                                      DoubleMedian(SetValues(u, "performance_score")))
                  /\ IF SetValues(u, "lab_lcp_ms") = <<>>
                     THEN OutRows(u)[1]["lab_lcp_ms"] = NoneVal
                     ELSE IsRoundedHalf(OutRows(u)[1]["lab_lcp_ms"].v,
                                        DoubleMedian(SetValues(u, "lab_lcp_ms")))

\* two urls, two runs each: the scores 91 and 90 reduce to 90, the scores 91
\* and 92 to 92
C20_Witness ==
    /\ t_pc = "table"
    /\ total_runs = 2
    /\ SetValues("a.com", "performance_score") = <<91, 90>>
    /\ SetValues("b.com", "performance_score") = <<91, 92>>
    /\ Len(dataframe.rows) = 2
    /\ OutRows("a.com")[1]["performance_score"] = Num(90)
    /\ OutRows("b.com")[1]["performance_score"] = Num(92)
    /\ OutRows("a.com")[1]["score_range"] = Num(1)

\* the raw table with its rows in the order `perm`
Permuted(perm) ==
    [columns |-> raw.columns, rows |-> [k \in 1..Len(raw.rows) |-> raw.rows[perm[k]]]]

\* C21: with runs > 1, every arrival order of the rows of the raw table
\* aggregates, for every key, to the same row in every column.
C21_OrderIndependence ==
    (Aggregated /\ total_runs > 1) =>
        \A perm \in Permutations(1..Len(raw.rows)) :
            \A u \in RawUrls :
                RowOf(aggregate_multi_run(Permuted(perm), total_runs), u) = RowOf(dataframe, u)

\* the set field buckets of the successful rows of a url, in table order
Buckets(url) ==
    LET cells == SelectSeq([k \in 1..Len(RawSuccesses(url)) |->
                               Get(RawSuccesses(url)[k], "field_lcp_category")],
                           LAMBDA cell : cell # NoneVal)
    IN [k \in 1..Len(cells) |-> cells[k].v]

\* the most frequent element of a non-empty sequence, the first encountered
\* one among those tied
FirstMostFrequent(values) ==
    LET Times(x) == Cardinality({k \in 1..Len(values) : values[k] = x})
        best == {k \in 1..Len(values) : \A j \in 1..Len(values) : Times(values[j]) <= Times(values[k])}
    IN values[CHOOSE k \in best : \A j \in best : k <= j]

\* C22 as stated: with runs > 1, the field bucket of the aggregated row of a group with a
\* successful row is the most frequent of the set buckets of its successful
\* rows, the first encountered one when several are tied (['SLOW', 'FAST'] gives
\* 'SLOW'), and unset when no bucket is set.
C22_CategoricalMode ==
    (Aggregated /\ total_runs > 1) =>
        \A u \in RawUrls :
            RawSuccesses(u) # <<>> =>
                /\ OutRows(u)[1]["field_lcp_category"] =
                      IF Buckets(u) = <<>> THEN NoneVal ELSE Str(FirstMostFrequent(Buckets(u)))
                /\ Buckets(u) = <<"SLOW", "FAST">> =>
                      OutRows(u)[1]["field_lcp_category"] = Str("SLOW")

\* the most frequent element of a non-empty sequence of buckets, the first in
\* alphabetical order among those tied
SmallestMostFrequent(values) ==
    LET Times(x) == Cardinality({k \in 1..Len(values) : values[k] = x})
        best == {x \in {"AVERAGE", "FAST", "SLOW"} :
                    /\ Times(x) > 0
                    /\ \A j \in 1..Len(values) : Times(values[j]) <= Times(x)}
    IN IF "AVERAGE" \in best THEN "AVERAGE" ELSE IF "FAST" \in best THEN "FAST" ELSE "SLOW"

\* C22, amended: with runs > 1, the field bucket of the aggregated row of a
\* group with a successful row is the most frequent of the set buckets of its
\* successful rows, the alphabetically smallest one when several are tied
\* (['SLOW', 'FAST'] gives 'FAST'), and unset when no bucket is set.
C22_SortedMode ==
    (Aggregated /\ total_runs > 1) =>
        \A u \in RawUrls :
            RawSuccesses(u) # <<>> =>
                /\ OutRows(u)[1]["field_lcp_category"] =
                      IF Buckets(u) = <<>> THEN NoneVal ELSE Str(SmallestMostFrequent(Buckets(u)))
                /\ Buckets(u) = <<"SLOW", "FAST">> =>
                      OutRows(u)[1]["field_lcp_category"] = Str("FAST")

\* a group whose two successful runs fell into SLOW and then FAST
C22_Witness ==
    /\ Aggregated
    /\ total_runs = 2
    /\ \E u \in RawUrls :
          /\ Buckets(u) = <<"SLOW", "FAST">>
          /\ OutRows(u)[1]["field_lcp_category"] = Str("FAST")

\* C23: with runs <= 1 the table comes back unchanged: the same rows in the
\* same order, the same columns, none of runs_completed, score_range and
\* score_stddev added, rows with the same key not merged.
C23_SingleRunPassThrough ==
    (Aggregated /\ total_runs <= 1) =>
        /\ dataframe = raw
        /\ dataframe.columns = raw.columns
        /\ dataframe.columns \cap {"runs_completed", "score_range", "score_stddev"} = {}
        /\ Len(dataframe.rows) = Len(raw.rows)
        /\ \A k \in 1..Len(raw.rows) : dataframe.rows[k] = raw.rows[k]

\* one run of a list that names the same url three times: three rows with the
\* same key, an errored one among them, come back as they are
C23_Witness ==
    /\ t_pc = "table"
    /\ total_runs = 1
    /\ Len(raw.rows) = 3
    /\ Cardinality(RawUrls) = 1
    /\ raw.rows[1]["error"] # NoneVal
    /\ raw.rows[2]["performance_score"] = Num(90)
    /\ raw.rows[3]["performance_score"] = Num(91)
    /\ Len(dataframe.rows) = 3
    /\ dataframe.rows[3]["performance_score"] = Num(91)

\* the ways a delivery fails
DeliveryFailures == {"ConnectionError", "Timeout", "HTTPError"}

\* the exit code that the verdict alone determines
VerdictCode(v) == IF v = "error" THEN 1 ELSE IF v = "fail" THEN 2 ELSE 0

\* C24: a failed delivery, whatever its cause, never makes the budget step
\* raise: it returns the exit code of the verdict, the one it returns when the
\* delivery succeeds or none is made, and the verdict is the evaluation's.
C24_WebhookFailureNonFatal ==
    /\ t_pc # "raised"
    /\ (t_pc \in {"applied", "raised"} /\ delivery \in DeliveryFailures) =>
          /\ t_pc = "applied"
          /\ verdict = evaluate_budget(dataframe, budget)
          /\ exit_code = VerdictCode(verdict.verdict)

\* the endpoint answers with an error status after a failing verdict
C24_Witness ==
    /\ t_pc = "applied"
    /\ delivery = "HTTPError"
    /\ args.webhook_on = "always"
    /\ verdict.verdict = "fail"
    /\ verdict.failed = 1
    /\ exit_code = 2

\* C25: with an endpoint and mode 'always' every evaluation attempts a
\* delivery, whatever the verdict; with mode 'fail' one is attempted iff the
\* verdict is 'fail'; with no endpoint none is attempted.
C25_WebhookTrigger ==
    t_pc \in {"applied", "raised"} =>
        /\ (args.webhook # NoneVal /\ args.webhook_on = "always") => delivery # "none"
        /\ (args.webhook # NoneVal /\ args.webhook_on = "fail") =>
              (delivery # "none" <=> verdict.verdict = "fail")
        /\ args.webhook = NoneVal => delivery = "none"

\* the responses have been extracted into the raw table
Extracted == t_pc \in {"raw", "table"} /\ api_responses # <<>>

\* the value at a path of keys in a response, unset when a key is missing
RECURSIVE At(_, _)
At(dict, path) ==
    IF path = <<>> THEN dict
    ELSE IF Head(path) \in DOMAIN dict THEN At(dict[Head(path)], Tail(path))
    ELSE NoneVal

\* the layout-shift field metric's percentile in a response
ClsPercentile(response) ==
    At(response, <<"loadingExperience", "metrics", "CUMULATIVE_LAYOUT_SHIFT_SCORE", "percentile">>)

\* C26: a field percentile is divided by 100 exactly when its api key contains
\* "CLS"; no key of the catalog does, so every field percentile, the one of
\* CUMULATIVE_LAYOUT_SHIFT_SCORE included, is stored as it is (10 gives 10).
C26_FieldRescaleRule ==
    /\ FieldCell(<<"C", "L", "S">>, Num(10)) = E4(1000)
    /\ FieldCell(<<"L", "A", "B", "_", "C", "L", "S">>, Num(10)) = E4(1000)
    /\ FieldCell(<<"C", "L", "_", "S">>, Num(10)) = Num(10)
    /\ FieldCell(<<"S", "L", "C">>, Num(10)) = Num(10)
    /\ FieldCell(<<"C", "L", "S">>, NoneVal) = NoneVal
    /\ Extracted =>
          \A k \in 1..Len(api_responses) :
              /\ \A m \in 1..Len(FIELD_METRICS) :
                    /\ \A i \in 1..(Len(Spelling(FIELD_METRICS[m].api_key)) - 2) :
                          <<Spelling(FIELD_METRICS[m].api_key)[i],
                            Spelling(FIELD_METRICS[m].api_key)[i + 1],
                            Spelling(FIELD_METRICS[m].api_key)[i + 2]>> # <<"C", "L", "S">>
                    /\ raw.rows[k][FIELD_METRICS[m].value_col] =
                          At(api_responses[k],
                             <<"loadingExperience", "metrics", FIELD_METRICS[m].api_key,
                               "percentile">>)
              /\ ClsPercentile(api_responses[k]) = Num(10) => raw.rows[k]["field_cls"] = Num(10)

\* the full response, whose layout-shift percentile is 10
C26_Witness ==
    /\ t_pc = "raw"
    /\ api_responses = <<FullResponse>>
    /\ ClsPercentile(api_responses[1]) = Num(10)
    /\ raw.rows[1]["field_cls"] = Num(10)
    /\ raw.rows[1]["field_lcp_ms"] = Num(2500)

\* the fixed columns of an extracted row
ScoreColumns == {"performance_score", "accessibility_score", "best_practices_score", "seo_score"}
LabColumns == {"lab_fcp_ms", "lab_lcp_ms", "lab_cls", "lab_speed_index_ms", "lab_tbt_ms",
               "lab_tti_ms"}
FieldValueColumns == {"field_fcp_ms", "field_lcp_ms", "field_cls", "field_inp_ms",
                      "field_fid_ms", "field_ttfb_ms"}
FieldBucketColumns == {"field_fcp_category", "field_lcp_category", "field_cls_category",
                       "field_inp_category", "field_fid_category", "field_ttfb_category"}
FixedColumns ==
    {"url", "strategy", "error", "fetch_time"} \cup ScoreColumns \cup LabColumns
    \cup FieldValueColumns \cup FieldBucketColumns

\* the columns that the response has no data for
AbsentColumns(response) ==
    {c \in ScoreColumns : At(response, <<"lighthouseResult", "categories">>) = NoneVal}
    \cup {c \in {"performance_score"} :
             At(response, <<"lighthouseResult", "categories", "performance", "score">>) = NoneVal}
    \cup {c \in LabColumns : At(response, <<"lighthouseResult", "audits">>) = NoneVal}
    \cup {c \in {"lab_fcp_ms"} :
             At(response, <<"lighthouseResult", "audits", "first-contentful-paint",
                            "numericValue">>) = NoneVal}
    \cup {c \in FieldValueColumns \cup FieldBucketColumns :
             At(response, <<"loadingExperience">>) = NoneVal}
    \cup {c \in {"field_cls"} : ClsPercentile(response) = NoneVal}
    \cup {c \in {"field_cls_category"} :
             At(response, <<"loadingExperience", "metrics", "CUMULATIVE_LAYOUT_SHIFT_SCORE",
                            "category">>) = NoneVal}
    \cup {c \in {"fetch_time"} : At(response, <<"lighthouseResult", "fetchTime">>) = NoneVal}

\* C27: whatever optional parts a response lacks, its row has the 26 fixed
\* columns, error unset, the columns without data unset and the others set.
C27_ExtractionNeverRaises ==
    Extracted =>
        /\ raw.columns = FixedColumns
        /\ Cardinality(FixedColumns) = 26
        /\ \A k \in 1..Len(api_responses) :
              /\ DOMAIN raw.rows[k] = FixedColumns
              /\ raw.rows[k]["error"] = NoneVal
              /\ raw.rows[k]["url"] = FetchUrl
              /\ \A c \in FixedColumns \ {"url", "strategy", "error"} :
                    raw.rows[k][c] = NoneVal <=> c \in AbsentColumns(api_responses[k])

\* a response without the performance score, the layout-shift percentile and
\* the fetch time, and a response without anything
C27_Witness ==
    /\ t_pc = "raw"
    /\ \/ /\ api_responses = <<Response({"score", "percentile", "fetchTime"}, 12345, 920, 10)>>
          /\ raw.rows[1]["performance_score"] = NoneVal
          /\ raw.rows[1]["seo_score"] = Num(95)
          /\ raw.rows[1]["field_cls"] = NoneVal
          /\ raw.rows[1]["field_cls_category"] = Str("FAST")
          /\ raw.rows[1]["fetch_time"] = NoneVal
       \/ /\ DOMAIN api_responses[1] = {}
          /\ \A c \in FixedColumns \ {"url", "strategy"} : raw.rows[1][c] = NoneVal

\* v is the integer nearest to n / 10, the even one of the two when n / 10 is
\* an exact half
IsRoundedTenth(v, n) ==
    IF n % 10 = 5 THEN (10 * v = n - 5 \/ 10 * v = n + 5) /\ v % 2 = 0
    ELSE 10 * v - n < 5 /\ n - 10 * v < 5

\* C28: extraction and aggregation both round an exact half to the even
\* integer: a timing of 1234.5 extracts to 1234, and with runs > 1 the scores
\* {90, 91} aggregate to 90 and {91, 92} to 92.
C28_HalvesToEven ==
    /\ Extracted =>
          \A k \in 1..Len(api_responses) :
              LET timing == At(api_responses[k], <<"lighthouseResult", "audits",
                                                  "first-contentful-paint", "numericValue">>)
                  score == At(api_responses[k], <<"lighthouseResult", "categories",
                                                 "performance", "score">>)
              IN /\ timing # NoneVal =>
                      /\ IsRoundedTenth(raw.rows[k]["lab_fcp_ms"].v, timing.tenths)
                      /\ timing = Tenths(12345) => raw.rows[k]["lab_fcp_ms"] = Num(1234)
                 /\ score # NoneVal =>
                      IsRoundedTenth(raw.rows[k]["performance_score"].v, score.thousandths)
    /\ (t_pc = "table" /\ api_responses # <<>> /\ total_runs > 1) =>
          LET scores == SetValues(FetchUrl, "performance_score") IN
          scores # <<>> =>
              /\ IsRoundedHalf(OutRows(FetchUrl)[1]["performance_score"].v, DoubleMedian(scores))
              /\ scores \in {<<90, 91>>, <<91, 90>>} =>
                    OutRows(FetchUrl)[1]["performance_score"] = Num(90)
              /\ scores \in {<<91, 92>>, <<92, 91>>} =>
                    OutRows(FetchUrl)[1]["performance_score"] = Num(92)

\* two runs with the scores 0.91 and 0.92 and the timing 1234.5
C28_Witness ==
    /\ t_pc = "table"
    /\ total_runs = 2
    /\ Len(api_responses) = 2
    /\ raw.rows[1]["performance_score"] = Num(91)
    /\ raw.rows[2]["performance_score"] = Num(92)
    /\ raw.rows[1]["lab_fcp_ms"] = Num(1234)
    /\ dataframe.rows[1]["performance_score"] = Num(92)
    /\ dataframe.rows[1]["lab_fcp_ms"] = Num(1234)

\* the tasks whose process_single returned a row, successful or errored
Finished == {i \in Tasks : pc[i] \in {"done", "collected"}}

\* C29: the counter is incremented under its lock exactly once per finished
\* task, no increment is lost, the progress display is given 1, 2, ... each once
\* and in increasing order, and the counter equals total_tasks when
\* process_urls returns.
C29_CompletedCounter ==
    main_pc # "idle" =>
        /\ \A i \in Tasks : pc[i] = "counting" => lock = i /\ seen[i] = completed_count
        /\ Cardinality({i \in Tasks : pc[i] = "counting"}) <= 1
        /\ completed_count = Cardinality(Finished)
        /\ Len(progress) = completed_count
        /\ \A k \in 1..Len(progress) : progress[k] = k
        /\ main_pc = "returned" =>
              /\ completed_count = total_tasks
              /\ progress = [k \in 1..total_tasks |-> k]

\* two workers, two tasks, one of them errored: both were counted
C29_Witness ==
    /\ main_pc = "returned"
    /\ max_workers = 2
    /\ total_tasks = 2
    /\ completed_count = 2
    /\ progress = <<1, 2>>
    /\ \E k \in 1..2 : results[k].error # NoneVal
    /\ \E k \in 1..2 : results[k].error = NoneVal

\* a step of process_urls or of one of its tasks
ProgramStep ==
    \/ ChooseMode
    \/ \E i \in Tasks : StartSequential(i) \/ StartPooled(i) \/ Acquire(i) \/ Stamp(i)
    \/ \E i \in Tasks : Request(i) \/ Wake(i) \/ LockAcquire(i) \/ Count(i) \/ Collect(i)
    \/ Unwind
    \/ Return

\* a task is in a sleep, which ends when time has passed
Sleeping == \E i \in Tasks : pc[i] \in {"pacing", "backoff"}

\* the task waits for the gate or for the counter lock, which another holds
Blocked(i) ==
    \/ pc[i] = "gate" /\ semaphore # 0
    \/ pc[i] = "lock" /\ lock # 0

\* C30: the workers in flight are never all blocked on the gate or on the
\* counter lock; the run can stop only by process_urls returning, and then
\* every task has passed the gate, finished and contributed its row.
C30_ProgressNoDeadlock ==
    main_pc # "idle" =>
        /\ InFlight # {} => \E i \in InFlight : ~Blocked(i)
        /\ (~Sleeping /\ ~ENABLED ProgramStep) => main_pc = "returned"
        /\ main_pc = "returned" =>
              /\ \A i \in Tasks : pc[i] = "collected"
              /\ Len(results) = total_tasks

====
